---- MODULE Spec2Model ----
(***************************************************************************)
(* Candle stream and signal engine of devilknock/Aka.                      *)
(*                                                                         *)
(* The repository holds several alternative versions of the server         *)
(* (src/index.js, src/unnamed/part_001, src/unnamed/part_002, ...); one    *)
(* process runs one of them.  The variable `variant` records which one,    *)
(* and every action is guarded by the variant whose code it models.        *)
(*                                                                         *)
(* Numbers.  Prices are integers.  EMA and RSI values are exact rationals  *)
(* [n |-> numerator, d |-> denominator] with d > 0 (the code uses IEEE     *)
(* doubles; the model computes the same formulas without rounding error).  *)
(* Stop-loss / take-profit levels of src/index.js are in hundredths        *)
(* (toFixed(2)), confidence is in hundredths.                              *)
(*                                                                         *)
(* Indices.  A JavaScript index i is the TLA+ position i + 1.              *)
(*                                                                         *)
(* Scale.  The indicator periods of src/index.js are read from the         *)
(* environment (process.env.EMA_SHORT, EMA_LONG, RSI_PERIOD); the model    *)
(* runs the configuration EMA_SHORT=2, EMA_LONG=3, RSI_PERIOD=3.  The      *)
(* buffer capacity (2000 in the source), the history limits (300 / 200)    *)
(* and the literal periods of part_001 (5, 20, 14, and the minimum of 20   *)
(* closes) are scaled down to the values named below.                      *)
(***************************************************************************)
EXTENDS Integers, Sequences, FiniteSets, TLC

\* ----------------------------------------------------------------------
\* Configuration and bounds
\* ----------------------------------------------------------------------

\* src/index.js:17-19 (environment configuration of the model)
EMA_SHORT == 2
EMA_LONG == 3
RSI_PERIOD == 3
\* src/index.js:20-21
RSI_BUY_MAX == 60
RSI_SELL_MIN == 40
\* src/index.js:22
REQUIRE_CONFIRMATION == TRUE

\* capacity of ohlc: the literal 2000 of src/index.js:233, scaled
MaxOhlc == 6
\* src/index.js:13 HISTORICAL_LIMIT (300 by default), scaled
HISTORICAL_LIMIT == 3
\* src/unnamed/part_001:12 HIST_LIMIT (200), scaled
HIST_LIMIT == 4
\* src/unnamed/part_001:79 minimum number of closes (20), scaled
MIN_CLOSES == 3
\* src/unnamed/part_001:81-82 periods of calcEMA (5 and 20), scaled
EMA_FAST == 2
EMA_SLOW == 3
\* src/unnamed/part_001:33 default length of calcRSI (14), scaled
RSI_LENGTH == 3
\* largest number of rows of one /push-ohlc request
MaxPush == 2
\* largest number of upstream sockets the process creates in one run
MaxSockets == 3

\* close prices of the candles the environment delivers
Prices == {1, 4, 5}
Symbols == {"btcusdt", "ethusdt"}
\* a symbol with a character outside [a-z0-9], and the symbols a request may carry
Malformed == "eth-usdt"
Requests == Symbols \cup {Malformed}
Null == "null"

\* ----------------------------------------------------------------------
\* Rational arithmetic
\* ----------------------------------------------------------------------
Rat(n, d) == [n |-> n, d |-> d]
RLt(a, b) == a.n * b.d < b.n * a.d
RLe(a, b) == a.n * b.d <= b.n * a.d
RGt(a, b) == RLt(b, a)
RGe(a, b) == RLe(b, a)
\* Math.round: nearest integer, halves towards +infinity (n >= 0, d > 0)
MathRound(a) == (2 * a.n + a.d) \div (2 * a.d)

RECURSIVE SumSeq(_, _)
SumSeq(s, k) == IF k = 0 THEN 0 ELSE s[k] + SumSeq(s, k - 1)

Max2(a, b) == IF a >= b THEN a ELSE b
Min2(a, b) == IF a <= b THEN a ELSE b

\* an absent number (JavaScript null / undefined field)
NoVal == -1
\* an absent indicator value (null in an indicator series)
NullRat == [n |-> 0, d |-> 0]
IsNull(x) == x.d = 0
\* a relational comparison coerces null to 0
Num(x) == IF IsNull(x) THEN Rat(0, 1) ELSE x

\* ----------------------------------------------------------------------
\* Indicator functions of src/index.js (the same text is in part_002)
\* ----------------------------------------------------------------------

\* the running mean of the first j values in place of the recurrence
emaAtRunningMean(values, length, j) == Rat(SumSeq(values, j), j)

\* the EMA at position j >= length: SMA seed at j = length, recurrence after
RECURSIVE emaAt(_, _, _)
emaAt(values, length, j) ==
    IF j = length
    THEN Rat(SumSeq(values, length), length)
    ELSE LET prevEma == emaAt(values, length, j - 1)
         IN  Rat(2 * values[j] * prevEma.d + (length - 1) * prevEma.n,
                 (length + 1) * prevEma.d)

\* ema with the first value one index late
emaNullThroughLength(values, length) ==
    IF Len(values) = 0 \/ Len(values) < length
    THEN [j \in 1..Len(values) |-> NullRat]
    ELSE [j \in 1..Len(values) |->
             IF j <= length THEN NullRat ELSE emaAt(values, length, j)]

ema(values, length) ==
    IF Len(values) = 0 \/ Len(values) < length
    THEN [j \in 1..Len(values) |-> NullRat]
    ELSE [j \in 1..Len(values) |->
             IF j < length THEN NullRat ELSE emaAt(values, length, j)]

\* gains and losses of the first `period` changes
RECURSIVE seedGains(_, _)
seedGains(values, j) ==
    IF j <= 1 THEN 0
    ELSE LET change == values[j] - values[j - 1]
         IN  (IF change >= 0 THEN change ELSE 0) + seedGains(values, j - 1)
RECURSIVE seedLosses(_, _)
seedLosses(values, j) ==
    IF j <= 1 THEN 0
    ELSE LET change == values[j] - values[j - 1]
         IN  (IF change >= 0 THEN 0 ELSE -change) + seedLosses(values, j - 1)

\* avgGain = g / d and avgLoss = l / d at position j >= period + 1
RECURSIVE rsiAvg(_, _, _)
rsiAvg(values, period, j) ==
    IF j = period + 1
    THEN [g |-> seedGains(values, period + 1),
          l |-> seedLosses(values, period + 1),
          d |-> period]
    ELSE LET prev == rsiAvg(values, period, j - 1)
             change == values[j] - values[j - 1]
             gain == IF change > 0 THEN change ELSE 0
             loss == IF change < 0 THEN -change ELSE 0
         IN  [g |-> prev.g * (period - 1) + gain * prev.d,
              l |-> prev.l * (period - 1) + loss * prev.d,
              d |-> period * prev.d]

\* 100 - 100 / (1 + avgGain / (avgLoss || 1e-8)).
\* With avgLoss = 0 the divisor is 1e-8: the value is 0 when avgGain = 0 and
\* 100 * x / (x + 1) with x = avgGain * 1e8 otherwise, which lies in
\* (99.999, 100) for every avgGain >= 1e-3; RsiSaturated stands for it.
RsiSaturated == Rat(99999, 1000)
rsiValue(avg) ==
    IF avg.l = 0
    THEN IF avg.g = 0 THEN Rat(0, 1) ELSE RsiSaturated
    ELSE Rat(100 * avg.g, avg.g + avg.l)

rsi(values, period) ==
    IF Len(values) <= period
    THEN [j \in 1..Len(values) |-> NullRat]
    ELSE [j \in 1..Len(values) |->
             IF j <= period THEN NullRat
             ELSE rsiValue(rsiAvg(values, period, j))]

\* isCrossUp without the test of the previous index
isCrossUpLevelOnly(emaShort, emaLong, i) ==
    IF i <= 1 THEN FALSE
    ELSE RGt(Num(emaShort[i]), Num(emaLong[i]))

\* i is a position: the JavaScript index plus one
isCrossUp(emaShort, emaLong, i) ==
    IF i <= 1 THEN FALSE
    ELSE /\ RLe(Num(emaShort[i - 1]), Num(emaLong[i - 1]))
         /\ RGt(Num(emaShort[i]), Num(emaLong[i]))
\* isCrossDown without the test of the index i itself
isCrossDownPrevOnly(emaShort, emaLong, i) ==
    IF i <= 1 THEN FALSE
    ELSE RGe(Num(emaShort[i - 1]), Num(emaLong[i - 1]))

isCrossDown(emaShort, emaLong, i) ==
    IF i <= 1 THEN FALSE
    ELSE /\ RGe(Num(emaShort[i - 1]), Num(emaLong[i - 1]))
         /\ RLt(Num(emaShort[i]), Num(emaLong[i]))

\* confirmedCrossUp that never looks at the index after the cross
confirmedCrossUpNoLookAhead(emaS, emaL, i) == isCrossUp(emaS, emaL, i)

confirmedCrossUp(emaS, emaL, i) ==
    IF ~REQUIRE_CONFIRMATION THEN isCrossUp(emaS, emaL, i)
    ELSE IF ~isCrossUp(emaS, emaL, i) THEN FALSE
    ELSE IF i + 1 > Len(emaS) THEN TRUE
    ELSE RGt(Num(emaS[i + 1]), Num(emaL[i + 1]))
confirmedCrossDown(emaS, emaL, i) ==
    IF ~REQUIRE_CONFIRMATION THEN isCrossDown(emaS, emaL, i)
    ELSE IF ~isCrossDown(emaS, emaL, i) THEN FALSE
    ELSE IF i + 1 > Len(emaS) THEN TRUE
    ELSE RLt(Num(emaS[i + 1]), Num(emaL[i + 1]))

\* calcConfidence without the cap at 0.95
calcConfidenceUncapped(rsiVal, side) ==
    LET bonus == IF side = "BUY"
                 THEN Max2(0, RSI_BUY_MAX - rsiVal)
                 ELSE Max2(0, rsiVal - RSI_SELL_MIN)
    IN  60 + bonus

\* confidence in hundredths; base is 0.6 at both call sites, rsiVal an integer
calcConfidence(rsiVal, side) ==
    LET bonus == IF side = "BUY"
                 THEN Max2(0, RSI_BUY_MAX - rsiVal)
                 ELSE Max2(0, rsiVal - RSI_SELL_MIN)
    IN  Min2(95, 60 + bonus)

\* +(x).toFixed(2) of x = n / d, in hundredths (nearest, halves up)
ToFixed2(n, d) == (200 * n + d) \div (2 * d)
\* price -/+ Math.max(0.2, price * 0.002) and price +/- Math.max(0.6, price * 0.006)
StopOffset(price) == IF price * 2 >= 200 THEN Rat(price * 2, 1000) ELSE Rat(200, 1000)
TargetOffset(price) == IF price * 6 >= 600 THEN Rat(price * 6, 1000) ELSE Rat(600, 1000)

closesOf(ohlcArr) == [j \in 1..Len(ohlcArr) |-> ohlcArr[j].close]

\* the guard with the number of closes in place of the latest index
notEnoughDataByLength(len) == len < EMA_LONG

\* `if (i < EMA_LONG)` with i = len - 1, the index of the latest close
notEnoughData(len) == len - 1 < EMA_LONG

analyzeAndSignal(ohlcArr, symbolLabel) ==
    LET closes == closesOf(ohlcArr)
        len == Len(closes)
        emaS == ema(closes, EMA_SHORT)
        emaL == ema(closes, EMA_LONG)
        rsiArr == rsi(closes, RSI_PERIOD)
        i == len
        hold(reason, price, r) ==
            [signal |-> "HOLD", reason |-> reason, price |-> price, rsi |-> r,
             stopLoss |-> NoVal, takeProfit |-> NoVal, confidence |-> NoVal,
             symbol |-> symbolLabel]
    IN  IF notEnoughData(len)
        THEN hold("Not enough data", IF len = 0 THEN NoVal ELSE closes[i], NoVal)
        ELSE LET price == closes[i]
                 r == IF IsNull(rsiArr[i]) THEN 50 ELSE MathRound(rsiArr[i])
                 up == confirmedCrossUp(emaS, emaL, i)
                 down == confirmedCrossDown(emaS, emaL, i)
             IN  IF up /\ r <= RSI_BUY_MAX
                 THEN [signal |-> "BUY", reason |-> "EMA cross up",
                       price |-> price, rsi |-> r,
                       stopLoss |-> ToFixed2(1000 * price - StopOffset(price).n, 1000),
                       takeProfit |-> ToFixed2(1000 * price + TargetOffset(price).n, 1000),
                       confidence |-> calcConfidence(r, "BUY"),
                       symbol |-> symbolLabel]
                 ELSE IF down /\ r >= RSI_SELL_MIN
                 THEN [signal |-> "SELL", reason |-> "EMA cross down",
                       price |-> price, rsi |-> r,
                       stopLoss |-> ToFixed2(1000 * price + StopOffset(price).n, 1000),
                       takeProfit |-> ToFixed2(1000 * price - TargetOffset(price).n, 1000),
                       confidence |-> calcConfidence(r, "SELL"),
                       symbol |-> symbolLabel]
                 ELSE hold("No confirmed cross", price, r)

\* ----------------------------------------------------------------------
\* State
\* ----------------------------------------------------------------------
VARIABLES
    variant,         \* which version of the server this process runs
    CURRENT_SYMBOL,  \* index.js:11, part_002:11 (SYMBOL in part_001)
    ohlc,            \* index.js:39, part_002:42: the candle buffer
    origin,          \* for each candle of ohlc, the instrument it was fetched or streamed for
    candles,         \* part_001:19: the candle buffer
    lastSignal,      \* index.js:40, part_001:20, part_002:43
    sockets,         \* every upstream WebSocket created so far
    binanceSocket,   \* index.js:41 (wsBinance in part_001): a position in sockets, 0 = null
    isSwitching,     \* index.js:42
    restarting,      \* part_002:45
    fetching,        \* the historical fetches in flight (awaited axios.get)
    timers,          \* the pending reconnect timers (setTimeout of the close handlers)
    call,            \* the most recent application of the level fusion of getSignal
    published,       \* the events the most recent handler pushed to the subscribers
    evaluations,     \* how many times the most recent handler ran the signal evaluation
    lastOp           \* the most recent handler and its input

vars == <<variant, CURRENT_SYMBOL, ohlc, origin, candles, lastSignal, sockets,
          binanceSocket, isSwitching, restarting, fetching, timers, call, published,
          evaluations, lastOp>>

\* lastSignal = null
NoSignal == [signal |-> Null]

SeqsUpTo(S, n) == UNION {[1..k -> S] : k \in 0..n}

\* the most recent handler: its name, the k.x and k.c of a stream message, how many
\* times it called shift() on the buffer, the status of the HTTP response it sent
\* (0 when it sent none) and, when a symbol switch ends, the symbol the server was
\* on before that switch
OpFull(name, final, close, shifted, status, from) ==
    [op |-> name, final |-> final, close |-> close, shifted |-> shifted,
     status |-> status, from |-> from]
Op(name, final, close, shifted) == OpFull(name, final, close, shifted, 0, Null)
OpOther(name) == Op(name, FALSE, NoVal, 0)
OpHttp(name, status) == OpFull(name, FALSE, NoVal, 0, status, Null)
OpSwitchEnd(name, kind, from) ==
    OpFull(name, FALSE, NoVal, 0, IF kind = "switch" THEN 200 ELSE 0,
           IF kind = "switch" THEN from ELSE Null)

\* the level fusion has not been applied
NoCall == [applied |-> FALSE]
Shifts(before, added) == Max2(0, Len(before) + added - MaxOhlc)

PriceEvent(close, symbol) == [type |-> "price", close |-> close, symbol |-> symbol]
SignalEvent(data) == [type |-> "signal", data |-> data]

\* a row of the historical response, and a closed candle of the stream
FinalCandle(close) == [close |-> close, isFinal |-> TRUE]

\* new WebSocket(url) with its four listeners attached
NewSocket(symbol) == [sym |-> symbol, ready |-> "connecting", listening |-> TRUE]

RemoveAt(s, k) == [j \in 1..(Len(s) - 1) |-> IF j < k THEN s[j] ELSE s[j + 1]]

Init ==
    /\ variant \in {"index", "part_001", "part_002"}
    /\ CURRENT_SYMBOL = "btcusdt"
    /\ ohlc = <<>>
    /\ origin = <<>>
    /\ candles = <<>>
    /\ lastSignal = NoSignal
    /\ sockets = <<>>
    /\ binanceSocket = 0
    /\ isSwitching = FALSE
    /\ restarting = FALSE
    /\ fetching = <<[sym |-> "btcusdt", kind |-> "boot", from |-> "btcusdt"]>>
    /\ timers = <<>>
    /\ call = NoCall
    /\ published = <<>>
    /\ evaluations = 0
    /\ lastOp = OpOther("init")

\* ----------------------------------------------------------------------
\* src/index.js
\* ----------------------------------------------------------------------

\* the eviction with >= in place of >
pushFinalShiftEarly(buf, candle) ==
    LET pushed == Append(buf, candle)
    IN  IF Len(pushed) >= MaxOhlc THEN Tail(pushed) ELSE pushed

\* ohlc.push(candle); if (ohlc.length > 2000) ohlc.shift();
pushFinal(buf, candle) ==
    LET pushed == Append(buf, candle)
    IN  IF Len(pushed) > MaxOhlc THEN Tail(pushed) ELSE pushed

\* the 'open' event of an upstream socket
SocketOpen ==
    /\ \E id \in 1..Len(sockets) :
          /\ sockets[id].ready = "connecting"
          /\ sockets' = [sockets EXCEPT ![id].ready = "open"]
    /\ published' = <<>>
    /\ evaluations' = 0
    /\ lastOp' = OpOther("open")
    /\ UNCHANGED <<variant, timers, call, CURRENT_SYMBOL, ohlc, origin, candles, lastSignal, binanceSocket,
                   isSwitching, restarting, fetching>>

\* the message handler evaluating on every candle update, closed or not
IdxMessageEvaluateAlways(P) ==
    /\ variant = "index"
    /\ \E id \in 1..Len(sockets), close \in P, final \in BOOLEAN :
          LET symbol == sockets[id].sym
              pushed == pushFinal(ohlc, FinalCandle(close))
              result == analyzeAndSignal(pushed, symbol)
          IN  /\ sockets[id].ready = "open"
              /\ sockets[id].listening
              /\ symbol \in Symbols
              /\ ohlc' = pushed
              /\ origin' = pushFinal(origin, symbol)
              /\ lastSignal' = result
              /\ published' = <<PriceEvent(close, symbol), SignalEvent(result)>>
              /\ evaluations' = 1
              /\ lastOp' = Op("message", final, close, Shifts(ohlc, 1))
    /\ UNCHANGED <<variant, timers, call, CURRENT_SYMBOL, candles, sockets, binanceSocket,
                   isSwitching, restarting, fetching>>

\* the message handler broadcasting the price after the closed-candle processing
IdxMessagePriceLast(P) ==
    /\ variant = "index"
    /\ \E id \in 1..Len(sockets), close \in P, final \in BOOLEAN :
          LET symbol == sockets[id].sym
              pushed == pushFinal(ohlc, FinalCandle(close))
              result == analyzeAndSignal(pushed, symbol)
          IN  /\ sockets[id].ready = "open"
              /\ sockets[id].listening
              /\ symbol \in Symbols
              /\ IF final
                 THEN /\ ohlc' = pushed
                      /\ origin' = pushFinal(origin, symbol)
                      /\ lastSignal' = result
                      /\ published' = <<SignalEvent(result), PriceEvent(close, symbol)>>
                      /\ evaluations' = 1
                 ELSE /\ UNCHANGED <<ohlc, origin, lastSignal>>
                      /\ published' = <<PriceEvent(close, symbol)>>
                      /\ evaluations' = 0
              /\ lastOp' = Op("message", final, close,
                               IF final THEN Shifts(ohlc, 1) ELSE 0)
    /\ UNCHANGED <<variant, timers, call, CURRENT_SYMBOL, candles, sockets, binanceSocket,
                   isSwitching, restarting, fetching>>

\* binanceSocket.on("message") of startLiveStreamFor(symbol), a well-formed
\* kline message: k.c = close, k.x = final
IdxMessage(P) ==
    /\ variant = "index"
    /\ \E id \in 1..Len(sockets), close \in P, final \in BOOLEAN :
          LET symbol == sockets[id].sym
              pushed == pushFinal(ohlc, FinalCandle(close))
              result == analyzeAndSignal(pushed, symbol)
          IN  /\ sockets[id].ready = "open"
              /\ sockets[id].listening
              /\ symbol \in Symbols
              /\ IF final
                 THEN /\ ohlc' = pushed
                      /\ origin' = pushFinal(origin, symbol)
                      /\ lastSignal' = result
                      /\ published' = <<PriceEvent(close, symbol), SignalEvent(result)>>
                      /\ evaluations' = 1
                 ELSE /\ UNCHANGED <<ohlc, origin, lastSignal>>
                      /\ published' = <<PriceEvent(close, symbol)>>
                      /\ evaluations' = 0
              /\ lastOp' = Op("message", final, close,
                               IF final THEN Shifts(ohlc, 1) ELSE 0)
    /\ UNCHANGED <<variant, timers, call, CURRENT_SYMBOL, candles, sockets, binanceSocket,
                   isSwitching, restarting, fetching>>

\* a malformed message whose exception escapes the handler and ends the stream
IdxMessageMalformedFatal ==
    /\ variant = "index"
    /\ \E id \in 1..Len(sockets) :
          /\ sockets[id].ready = "open"
          /\ sockets[id].listening
          /\ sockets' = [sockets EXCEPT ![id].ready = "closed", ![id].listening = FALSE]
    /\ published' = <<>>
    /\ evaluations' = 0
    /\ lastOp' = OpOther("malformed")
    /\ UNCHANGED <<variant, timers, call, CURRENT_SYMBOL, ohlc, origin, candles,
                   lastSignal, binanceSocket, isSwitching, restarting, fetching>>

\* a message that JSON.parse rejects, or one without the k field
IdxMessageMalformed ==
    /\ variant = "index"
    /\ \E id \in 1..Len(sockets) :
          /\ sockets[id].ready = "open"
          /\ sockets[id].listening
    /\ published' = <<>>
    /\ evaluations' = 0
    /\ lastOp' = OpOther("malformed")
    /\ UNCHANGED <<variant, timers, call, CURRENT_SYMBOL, ohlc, origin, candles, lastSignal, sockets,
                   binanceSocket, isSwitching, restarting, fetching>>

\* wssServer.on("connection"): the current symbol and the last signal, if any, are
\* sent to the subscriber that has just connected
IdxClientConnect ==
    /\ variant = "index"
    /\ published' = <<[type |-> "symbol_changed", symbol |-> CURRENT_SYMBOL]>>
                       \o (IF lastSignal = NoSignal THEN <<>>
                           ELSE <<SignalEvent(lastSignal)>>)
    /\ evaluations' = 0
    /\ lastOp' = OpOther("connection")
    /\ UNCHANGED <<variant, timers, call, CURRENT_SYMBOL, ohlc, origin, candles, lastSignal, sockets,
                   binanceSocket, isSwitching, restarting, fetching>>

\* switchSymbolTo(newSymbol) up to its await, called by POST /change-symbol
IdxSwitchStart ==
    /\ variant = "index"
    /\ Len(sockets) + Len(fetching) < MaxSockets
    /\ \E newSymbol \in Requests :
          /\ newSymbol # CURRENT_SYMBOL
          /\ lastOp' = OpOther(IF newSymbol \in Symbols THEN "switch"
                               ELSE "switch_malformed")
          /\ isSwitching' = TRUE
          /\ sockets' =
                IF binanceSocket # 0 /\ sockets[binanceSocket].ready = "open"
                THEN [sockets EXCEPT ![binanceSocket].listening = FALSE,
                                     ![binanceSocket].ready = "closed"]
                ELSE sockets
          /\ binanceSocket' = 0
          /\ CURRENT_SYMBOL' = newSymbol
          /\ fetching' = Append(fetching, [sym |-> newSymbol, kind |-> "switch",
                                               from |-> CURRENT_SYMBOL])
    /\ published' = <<>>
    /\ evaluations' = 0
    /\ UNCHANGED <<variant, timers, call, ohlc, origin, candles, lastSignal, restarting>>

\* switchSymbolTo with the symbol the process is already on
IdxSwitchSame ==
    /\ variant = "index"
    /\ published' = <<>>
    /\ evaluations' = 0
    /\ lastOp' = OpHttp("switch_same", 200)
    /\ UNCHANGED <<variant, timers, call, CURRENT_SYMBOL, ohlc, origin, candles, lastSignal, sockets,
                   binanceSocket, isSwitching, restarting, fetching>>

\* what follows `await loadHistoricalCandlesFor(...)`: in server.listen the stream is
\* started; in switchSymbolTo the stream is started, 'symbol_changed' and 'signal'
\* are broadcast and isSwitching is cleared
IdxAfterLoad(kind, signalNow, events) ==
    /\ sockets' = Append(sockets, NewSocket(CURRENT_SYMBOL))
    /\ binanceSocket' = Len(sockets) + 1
    /\ IF kind = "switch"
       THEN /\ published' = events \o <<[type |-> "symbol_changed", symbol |-> CURRENT_SYMBOL],
                                        SignalEvent(signalNow)>>
            /\ isSwitching' = FALSE
       ELSE /\ published' = events
            /\ UNCHANGED isSwitching

\* the historical fetch returns: loadHistoricalCandlesFor(symbol) replaces the
\* buffer, evaluates it and broadcasts the signal; then the caller continues
IdxFetchOk(P) ==
    /\ variant = "index"
    /\ \E k \in 1..Len(fetching), rows \in SeqsUpTo(P, HISTORICAL_LIMIT) :
          LET symbol == fetching[k].sym
              loaded == [j \in 1..Len(rows) |-> FinalCandle(rows[j])]
              result == analyzeAndSignal(loaded, symbol)
          IN  /\ ohlc' = loaded
              /\ origin' = [j \in 1..Len(rows) |-> symbol]
              /\ lastSignal' = result
              /\ evaluations' = 1
              /\ symbol \in Symbols
              /\ IdxAfterLoad(fetching[k].kind, result, <<SignalEvent(result)>>)
              /\ fetching' = RemoveAt(fetching, k)
              /\ lastOp' = OpSwitchEnd("load", fetching[k].kind, fetching[k].from)
    /\ UNCHANGED <<variant, timers, call, CURRENT_SYMBOL, candles, restarting>>

\* the historical fetch fails: the catch block logs, the caller continues
IdxFetchFail ==
    /\ variant = "index"
    /\ \E k \in 1..Len(fetching) :
          /\ IdxAfterLoad(fetching[k].kind, lastSignal, <<>>)
          /\ fetching' = RemoveAt(fetching, k)
          /\ lastOp' = OpSwitchEnd("load_failed", fetching[k].kind, fetching[k].from)
    /\ evaluations' = 0
    /\ UNCHANGED <<variant, timers, call, CURRENT_SYMBOL, ohlc, origin, candles, lastSignal, restarting>>

\* the historical fetch of a switch returns and the stream is started, then a
\* statement outside every try block raises (the broadcast of lines 288-289 sends
\* to every client): switchSymbolTo rejects before `isSwitching = false`, and the
\* catch of the route answers 500
IdxSwitchThrows(P) ==
    /\ variant = "index"
    /\ \E k \in 1..Len(fetching), rows \in SeqsUpTo(P, HISTORICAL_LIMIT) :
          LET symbol == fetching[k].sym
              loaded == [j \in 1..Len(rows) |-> FinalCandle(rows[j])]
              result == analyzeAndSignal(loaded, symbol)
          IN  /\ fetching[k].kind = "switch"
              /\ symbol \in Symbols
              /\ ohlc' = loaded
              /\ origin' = [j \in 1..Len(rows) |-> symbol]
              /\ lastSignal' = result
              /\ evaluations' = 1
              /\ sockets' = Append(sockets, NewSocket(CURRENT_SYMBOL))
              /\ binanceSocket' = Len(sockets) + 1
              /\ published' = <<SignalEvent(result)>>
              /\ fetching' = RemoveAt(fetching, k)
              /\ lastOp' = OpFull("switch_threw", FALSE, NoVal, 0, 500, fetching[k].from)
    /\ UNCHANGED <<variant, timers, call, CURRENT_SYMBOL, candles, isSwitching, restarting>>

\* POST /change-symbol without a symbol: answered 400 before switchSymbolTo is called
IdxSwitchMissing ==
    /\ variant = "index"
    /\ published' = <<>>
    /\ evaluations' = 0
    /\ lastOp' = OpHttp("switch_missing", 400)
    /\ UNCHANGED <<variant, timers, call, CURRENT_SYMBOL, ohlc, origin, candles,
                   lastSignal, sockets, binanceSocket, isSwitching, restarting, fetching>>

\* the 'close' event of an upstream socket that still has its listeners (the
\* connection dropped, or the socket was terminated): every variant's close handler
\* sets a 3 s timer; only part_002's timer uses the symbol of the closed stream
SocketClose ==
    /\ \E id \in 1..Len(sockets) :
          /\ sockets[id].ready \in {"connecting", "open", "terminated"}
          /\ sockets[id].listening
          /\ sockets' = [sockets EXCEPT ![id].ready = "closed"]
          /\ timers' = Append(timers, IF variant = "part_002" THEN sockets[id].sym
                                       ELSE Null)
    /\ published' = <<>>
    /\ evaluations' = 0
    /\ lastOp' = OpOther("close")
    /\ UNCHANGED <<variant, call, CURRENT_SYMBOL, ohlc, origin, candles, lastSignal,
                   binanceSocket, isSwitching, restarting, fetching>>

\* the timer of the close handler expiring without starting a stream
IdxReconnectDropsTimer ==
    /\ variant = "index"
    /\ isSwitching \/ Len(sockets) + Len(fetching) < MaxSockets
    /\ \E k \in 1..Len(timers) : timers' = RemoveAt(timers, k)
    /\ lastOp' = OpOther("reconnect_skipped")
    /\ published' = <<>>
    /\ evaluations' = 0
    /\ UNCHANGED <<variant, call, CURRENT_SYMBOL, ohlc, origin, candles, lastSignal,
                   sockets, binanceSocket, isSwitching, restarting, fetching>>

\* the timer of the close handler fires:
\* `if (!isSwitching) startLiveStreamFor(CURRENT_SYMBOL)`
IdxReconnect ==
    /\ variant = "index"
    /\ isSwitching \/ Len(sockets) + Len(fetching) < MaxSockets
    /\ \E k \in 1..Len(timers) : timers' = RemoveAt(timers, k)
    /\ IF isSwitching
       THEN /\ UNCHANGED <<sockets, binanceSocket>>
            /\ lastOp' = OpOther("reconnect_skipped")
       ELSE /\ sockets' = Append(sockets, NewSocket(CURRENT_SYMBOL))
            /\ binanceSocket' = Len(sockets) + 1
            /\ lastOp' = OpOther("reconnect")
    /\ published' = <<>>
    /\ evaluations' = 0
    /\ UNCHANGED <<variant, call, CURRENT_SYMBOL, ohlc, origin, candles, lastSignal,
                   isSwitching, restarting, fetching>>

\* ----------------------------------------------------------------------
\* src/unnamed/part_002 (its indicator functions and analyzeAndSignal are the
\* text of src/index.js; lastSignal = {...result, symbol})
\* ----------------------------------------------------------------------

\* startLiveStream(symbol): an existing socket is terminated first; terminate()
\* leaves its listeners in place, so its 'close' event is still to come
P2StartLiveStream(symbol) ==
    LET terminated == IF /\ binanceSocket # 0
                         /\ sockets[binanceSocket].ready \in {"connecting", "open"}
                      THEN [sockets EXCEPT ![binanceSocket].ready = "terminated"]
                      ELSE sockets
    IN  /\ sockets' = Append(terminated, NewSocket(symbol))
        /\ binanceSocket' = Len(sockets) + 1

\* what follows `await loadHistoricalCandles(...)`: server.listen starts the stream of
\* CURRENT_SYMBOL; POST /change-symbol starts the stream of the requested symbol,
\* broadcasts a 'notice' and clears restarting
P2AfterLoad(fetch, events) ==
    IF fetch.kind = "switch"
    THEN /\ P2StartLiveStream(fetch.sym)
         /\ published' = events \o <<[type |-> "notice", symbol |-> fetch.sym]>>
         /\ restarting' = FALSE
    ELSE /\ P2StartLiveStream(CURRENT_SYMBOL)
         /\ published' = events
         /\ UNCHANGED restarting

\* the historical fetch returns: loadHistoricalCandles(symbol) replaces the buffer,
\* evaluates it and broadcasts the signal; then the caller continues
P2FetchOk(P) ==
    /\ variant = "part_002"
    /\ \E k \in 1..Len(fetching), rows \in SeqsUpTo(P, HISTORICAL_LIMIT) :
          LET symbol == fetching[k].sym
              loaded == [j \in 1..Len(rows) |-> FinalCandle(rows[j])]
              result == analyzeAndSignal(loaded, symbol)
          IN  /\ ohlc' = loaded
              /\ origin' = [j \in 1..Len(rows) |-> symbol]
              /\ lastSignal' = result
              /\ evaluations' = 1
              /\ P2AfterLoad(fetching[k], <<SignalEvent(result)>>)
              /\ fetching' = RemoveAt(fetching, k)
              /\ lastOp' = OpSwitchEnd("load", fetching[k].kind, fetching[k].from)
    /\ UNCHANGED <<variant, timers, call, CURRENT_SYMBOL, candles, isSwitching>>

\* the historical fetch fails: the catch block of loadHistoricalCandles logs, then
\* the caller continues
P2FetchFail ==
    /\ variant = "part_002"
    /\ \E k \in 1..Len(fetching) :
          /\ P2AfterLoad(fetching[k], <<>>)
          /\ fetching' = RemoveAt(fetching, k)
          /\ lastOp' = OpSwitchEnd("load_failed", fetching[k].kind, fetching[k].from)
    /\ evaluations' = 0
    /\ UNCHANGED <<variant, timers, call, CURRENT_SYMBOL, ohlc, origin, candles,
                   lastSignal, isSwitching>>

\* POST /change-symbol with a well-formed symbol while no restart is in progress, up
\* to its await
P2ChangeSymbol ==
    /\ variant = "part_002"
    /\ ~restarting
    /\ Len(sockets) + Len(fetching) < MaxSockets
    /\ \E s \in Symbols :
          /\ CURRENT_SYMBOL' = s
          /\ fetching' = Append(fetching, [sym |-> s, kind |-> "switch",
                                           from |-> CURRENT_SYMBOL])
    /\ restarting' = TRUE
    /\ published' = <<>>
    /\ evaluations' = 0
    /\ lastOp' = OpOther("change_symbol")
    /\ UNCHANGED <<variant, timers, call, ohlc, origin, candles, lastSignal, sockets,
                   binanceSocket, isSwitching>>

\* the handler without its test of restarting: the request made during a restart
\* starts a second switch
P2ChangeSymbolWhileBusy ==
    /\ variant = "part_002"
    /\ restarting
    /\ Len(sockets) + Len(fetching) < MaxSockets
    /\ \E s \in Symbols :
          /\ CURRENT_SYMBOL' = s
          /\ fetching' = Append(fetching, [sym |-> s, kind |-> "switch",
                                           from |-> CURRENT_SYMBOL])
    /\ published' = <<>>
    /\ evaluations' = 0
    /\ lastOp' = OpOther("change_symbol")
    /\ UNCHANGED <<variant, timers, call, ohlc, origin, candles, lastSignal, sockets,
                   binanceSocket, isSwitching, restarting>>

\* POST /change-symbol with a well-formed symbol while restarting is true: 409
P2ChangeSymbolBusy ==
    /\ variant = "part_002"
    /\ restarting
    /\ published' = <<>>
    /\ evaluations' = 0
    /\ lastOp' = OpHttp("change_symbol", 409)
    /\ UNCHANGED <<variant, timers, call, CURRENT_SYMBOL, ohlc, origin, candles,
                   lastSignal, sockets, binanceSocket, isSwitching, restarting, fetching>>

\* POST /change-symbol with no symbol, a non-string or a malformed symbol: 400
P2ChangeSymbolInvalid ==
    /\ variant = "part_002"
    /\ \E name \in {"change_missing", "change_malformed"} : lastOp' = OpHttp(name, 400)
    /\ published' = <<>>
    /\ evaluations' = 0
    /\ UNCHANGED <<variant, timers, call, CURRENT_SYMBOL, ohlc, origin, candles,
                   lastSignal, sockets, binanceSocket, isSwitching, restarting, fetching>>

\* the timer of the close handler fires: startLiveStream(symbol) for the symbol of
\* the stream that closed
P2Reconnect ==
    /\ variant = "part_002"
    /\ Len(sockets) + Len(fetching) < MaxSockets
    /\ \E k \in 1..Len(timers) :
          /\ P2StartLiveStream(timers[k])
          /\ timers' = RemoveAt(timers, k)
    /\ published' = <<>>
    /\ evaluations' = 0
    /\ lastOp' = OpOther("reconnect")
    /\ UNCHANGED <<variant, call, CURRENT_SYMBOL, ohlc, origin, candles, lastSignal,
                   isSwitching, restarting, fetching>>

\* binanceSocket.on("message") of startLiveStream(symbol)
P2Message(P) ==
    /\ variant = "part_002"
    /\ \E id \in 1..Len(sockets), close \in P, final \in BOOLEAN :
          LET symbol == sockets[id].sym
              pushed == pushFinal(ohlc, FinalCandle(close))
              result == analyzeAndSignal(pushed, symbol)
          IN  /\ sockets[id].ready = "open"
              /\ sockets[id].listening
              /\ symbol \in Symbols
              /\ IF final
                 THEN /\ ohlc' = pushed
                      /\ origin' = pushFinal(origin, symbol)
                      /\ lastSignal' = result
                      /\ published' = <<PriceEvent(close, symbol), SignalEvent(result)>>
                      /\ evaluations' = 1
                 ELSE /\ UNCHANGED <<ohlc, origin, lastSignal>>
                      /\ published' = <<PriceEvent(close, symbol)>>
                      /\ evaluations' = 0
              /\ lastOp' = Op("message", final, close,
                               IF final THEN Shifts(ohlc, 1) ELSE 0)
    /\ UNCHANGED <<variant, timers, call, CURRENT_SYMBOL, candles, sockets, binanceSocket,
                   isSwitching, restarting, fetching>>

\* the forEach of POST /push-ohlc: push, shift and a 'price' event per row
RECURSIVE pushAll(_, _)
pushAll(buf, arr) ==
    IF arr = <<>> THEN buf
    ELSE pushAll(pushFinal(buf, FinalCandle(Head(arr))), Tail(arr))

\* POST /push-ohlc with an array body
P2PushOhlc(P) ==
    /\ variant = "part_002"
    /\ \E arr \in SeqsUpTo(P, MaxPush) :
          LET pushed == pushAll(ohlc, arr)
              result == analyzeAndSignal(pushed, CURRENT_SYMBOL)
          IN  /\ ohlc' = pushed
              /\ origin' = LET grown == origin \o [j \in 1..Len(arr) |-> CURRENT_SYMBOL]
                            IN  SubSeq(grown, Len(grown) - Len(pushed) + 1, Len(grown))
              /\ lastSignal' = result
              /\ published' = [j \in 1..Len(arr) |-> PriceEvent(arr[j], CURRENT_SYMBOL)]
                                 \o <<SignalEvent(result)>>
              /\ evaluations' = 1
              /\ lastOp' = Op("push_ohlc", TRUE, NoVal, Shifts(ohlc, Len(arr)))
    /\ UNCHANGED <<variant, timers, call, CURRENT_SYMBOL, candles, sockets, binanceSocket,
                   isSwitching, restarting, fetching>>

\* ----------------------------------------------------------------------
\* src/patternAnalyzer.js: the second definition of detectChartPatterns, which is
\* the one in effect.  closes are integers; levels are in ten-thousandths.
\* ----------------------------------------------------------------------
PATTERN_MIN_CANDLES == 50

Abs(x) == IF x < 0 THEN -x ELSE x
RECURSIVE MinOf(_, _, _)
MinOf(s, from, to) ==
    IF from = to THEN s[from] ELSE Min2(s[from], MinOf(s, from + 1, to))
RECURSIVE MaxOf(_, _, _)
MaxOf(s, from, to) ==
    IF from = to THEN s[from] ELSE Max2(s[from], MaxOf(s, from + 1, to))
RECURSIVE SumOf(_, _, _)
SumOf(s, from, to) ==
    IF from > to THEN 0 ELSE s[from] + SumOf(s, from + 1, to)

\* detectChartPatterns returned null
NoPattern == [name |-> Null]

\* the heuristics whose condition holds on the closes
heuristics(closes) ==
    LET len == Len(closes)
        last(i) == closes[len - i]
        \* slice(n)[j], j counted from 0
        sl(n, j) == closes[len - n + 1 + j]
        p1 == last(4)
        p2 == last(2)
        p3 == last(0)
        L == last(6)
        H == last(4)
        R == last(2)
        firstSum == SumOf(closes, len - 9, len - 5)
        lastSum == SumOf(closes, len - 4, len)
        highLine == MaxOf(closes, len - 19, len)
        lowLine == MinOf(closes, len - 19, len)
        supportTrend == sl(20, 0) < sl(20, 9) /\ sl(20, 9) < sl(20, 19)
        resistanceTrend == sl(20, 0) > sl(20, 9) /\ sl(20, 9) > sl(20, 19)
        rise == /\ 100 * sl(30, 10) < 98 * sl(30, 0)
                /\ MaxOf(closes, len - 29, len - 19) > MinOf(closes, len - 29, len - 19)
        flat == 1000 * Abs(sl(30, 29) - sl(30, 10)) < 15 * sl(30, 0)
        drop == 100 * sl(30, 10) > 102 * sl(30, 0)
        left == sl(50, 0)
        mid == sl(50, 25)
        right == sl(50, 49)
        cupShape == 100 * mid < 98 * left /\ 100 * mid < 98 * right
        symmetry == 1000 * Abs(left - right) < 15 * left
        when(cond, name) == IF cond THEN {name} ELSE {}
    IN  (IF p1 < p2 /\ 1000 * Abs(p2 - p3) < 2 * p2 /\ p3 < p2 THEN {"DOUBLE_TOP"}
         ELSE IF p1 > p2 /\ 1000 * Abs(p2 - p3) < 2 * p2 /\ p3 > p2
              THEN {"DOUBLE_BOTTOM"} ELSE {})
        \cup when(L < H /\ R < H /\ 100 * Abs(L - R) < H, "HEAD_SHOULDERS")
        \cup when(L > H /\ R > H /\ 100 * Abs(L - R) < H, "INVERSE_HEAD_SHOULDERS")
        \cup when(lastSum > firstSum /\ 250 * (sl(10, 9) - sl(10, 0)) < firstSum,
                  "RISING_WEDGE")
        \cup when(lastSum < firstSum /\ 250 * (sl(10, 0) - sl(10, 9)) < firstSum,
                  "FALLING_WEDGE")
        \cup when(supportTrend /\ 1000 * Abs(closes[len] - highLine) < 3 * highLine,
                  "ASCENDING_TRIANGLE")
        \cup when(resistanceTrend /\ 1000 * Abs(closes[len] - lowLine) < 3 * lowLine,
                  "DESCENDING_TRIANGLE")
        \cup when(rise /\ flat, "BULL_FLAG")
        \cup when(drop /\ flat, "BEAR_FLAG")
        \cup when(cupShape /\ symmetry, "CUP_HANDLE")

\* the chain with the first heuristic that fires keeping the name
patternNameFirstWins(closes) ==
    LET fired == heuristics(closes)
        keep(name, later) == IF name \in fired THEN name ELSE later
    IN  keep("DOUBLE_TOP", keep("DOUBLE_BOTTOM", keep("HEAD_SHOULDERS",
        keep("INVERSE_HEAD_SHOULDERS", keep("RISING_WEDGE", keep("FALLING_WEDGE",
        keep("ASCENDING_TRIANGLE", keep("DESCENDING_TRIANGLE", keep("BULL_FLAG",
        keep("BEAR_FLAG", keep("CUP_HANDLE", Null)))))))))))

\* the name the chain of heuristics leaves in `pattern` (Null when none fired):
\* every heuristic that fires overwrites the name left by the ones before it
patternName(closes) ==
    LET fired == heuristics(closes)
        assign(name, earlier) == IF name \in fired THEN name ELSE earlier
    IN  assign("CUP_HANDLE", assign("BEAR_FLAG", assign("BULL_FLAG",
        assign("DESCENDING_TRIANGLE", assign("ASCENDING_TRIANGLE",
        assign("FALLING_WEDGE", assign("RISING_WEDGE",
        assign("INVERSE_HEAD_SHOULDERS", assign("HEAD_SHOULDERS",
        assign("DOUBLE_BOTTOM", assign("DOUBLE_TOP", Null)))))))))))

\* the result with the structure taken over all the closes
detectChartPatternsWholeWindow(closes) ==
    IF Len(closes) < PATTERN_MIN_CANDLES THEN NoPattern
    ELSE LET len == Len(closes)
             pattern == patternName(closes)
             structureLow == MinOf(closes, 1, len)
             structureHigh == MaxOf(closes, 1, len)
         IN  IF pattern = Null THEN NoPattern
             ELSE [name |-> pattern,
                   support |-> 10000 * structureLow,
                   resistance |-> 10000 * structureHigh,
                   structureLow |-> 10000 * structureLow,
                   structureHigh |-> 10000 * structureHigh]

detectChartPatterns(closes) ==
    IF Len(closes) < PATTERN_MIN_CANDLES THEN NoPattern
    ELSE LET len == Len(closes)
             pattern == patternName(closes)
             structureLow == MinOf(closes, len - 19, len)
             structureHigh == MaxOf(closes, len - 19, len)
         IN  IF pattern = Null THEN NoPattern
             ELSE [name |-> pattern,
                   support |-> 10000 * structureLow,
                   resistance |-> 10000 * structureHigh,
                   structureLow |-> 10000 * structureLow,
                   structureHigh |-> 10000 * structureHigh]

\* the close of a candle as the caller hands it over: a number, null (NoVal) or a
\* text that is not a number; Number() turns null into 0 and such a text into NaN
TextClose == -3
NaNValue == -2
ToNumber(close) ==
    IF close = NoVal THEN 0 ELSE IF close = TextClose THEN NaNValue ELSE close

\* detectChartPatterns on its argument as given: the guards on the argument and on
\* the converted closes, then the analysis of the closes
detectChartPatternsOf(input) ==
    IF ~input.isArray \/ Len(input.closes) < PATTERN_MIN_CANDLES THEN NoPattern
    ELSE LET closes == [j \in 1..Len(input.closes) |-> ToNumber(input.closes[j])]
         IN  IF \E j \in 1..Len(closes) : closes[j] = NaNValue THEN NoPattern
             ELSE detectChartPatterns(closes)

\* ----------------------------------------------------------------------
\* src/unnamed/part_001
\* ----------------------------------------------------------------------

\* calcEMA(prices, period) over prices[0..j-1]: seeded with prices[0]
RECURSIVE calcEMAUpTo(_, _, _)
calcEMAUpTo(prices, period, j) ==
    IF j = 1 THEN Rat(prices[1], 1)
    ELSE LET e == calcEMAUpTo(prices, period, j - 1)
         IN  Rat(2 * prices[j] * e.d + (period - 1) * e.n, (period + 1) * e.d)
calcEMA(prices, period) == calcEMAUpTo(prices, period, Len(prices))

\* sums of the gains and of the losses of the last `length` changes
RECURSIVE lastGains(_, _, _)
lastGains(closes, from, to) ==
    IF from > to THEN 0
    ELSE LET diff == closes[from + 1] - closes[from]
         IN  (IF diff >= 0 THEN diff ELSE 0) + lastGains(closes, from + 1, to)
RECURSIVE lastLosses(_, _, _)
lastLosses(closes, from, to) ==
    IF from > to THEN 0
    ELSE LET diff == closes[from + 1] - closes[from]
         IN  (IF diff >= 0 THEN 0 ELSE -diff) + lastLosses(closes, from + 1, to)

calcRSI(closes, length) ==
    IF Len(closes) < length + 1 THEN Rat(50, 1)
    ELSE LET gains == lastGains(closes, Len(closes) - length, Len(closes) - 1)
             losses == lastLosses(closes, Len(closes) - length, Len(closes) - 1)
         IN  IF losses = 0 THEN Rat(100, 1)
             ELSE Rat(100 * gains, gains + losses)

\* the decision of getSignal
p1Decision(closes) ==
    LET ema5 == calcEMA(closes, EMA_FAST)
        ema20 == calcEMA(closes, EMA_SLOW)
        rsiNow == calcRSI(closes, RSI_LENGTH)
        lastClose == Rat(closes[Len(closes)], 1)
    IN  IF /\ RGt(ema5, ema20) /\ RGt(rsiNow, Rat(55, 1)) /\ RLt(rsiNow, Rat(70, 1))
           /\ RGt(lastClose, ema20)
        THEN "BUY"
        ELSE IF /\ RLt(ema5, ema20) /\ RLt(rsiNow, Rat(45, 1)) /\ RGt(rsiNow, Rat(30, 1))
                /\ RLt(lastClose, ema20)
        THEN "SELL"
        ELSE "HOLD"

\* the switch with the stop of the two topping patterns at the low of the structure
patternLevelsStopAtLow(p, lastClose) ==
    LET range == p.structureHigh - p.structureLow
        width == p.resistance - p.support
        px == 10000 * lastClose
        times(m) == lastClose * m
    IN  CASE p.name \in {"DOUBLE_TOP", "HEAD_SHOULDERS", "DOUBLE_BOTTOM",
                         "INVERSE_HEAD_SHOULDERS", "CUP_HANDLE"} ->
                 [sl |-> p.structureLow,
                  tp |-> IF p.name \in {"DOUBLE_TOP", "HEAD_SHOULDERS"}
                         THEN px - range ELSE px + range]
          [] p.name = "ASCENDING_TRIANGLE" -> [sl |-> p.support, tp |-> px + width]
          [] p.name = "DESCENDING_TRIANGLE" -> [sl |-> p.resistance, tp |-> px - width]
          [] p.name = "BULL_FLAG" -> [sl |-> times(9900), tp |-> times(10200)]
          [] p.name = "BEAR_FLAG" -> [sl |-> times(10100), tp |-> times(9800)]
          [] p.name = "RISING_WEDGE" -> [sl |-> times(9970), tp |-> times(9850)]
          [] p.name = "FALLING_WEDGE" -> [sl |-> times(10030), tp |-> times(10150)]
          [] OTHER -> [sl |-> NoVal, tp |-> NoVal]

\* the switch of getSignal: pattern-based stop and target, in ten-thousandths
patternLevels(p, lastClose) ==
    LET range == p.structureHigh - p.structureLow
        width == p.resistance - p.support
        px == 10000 * lastClose
        times(m) == lastClose * m
    IN  CASE p.name \in {"DOUBLE_TOP", "HEAD_SHOULDERS"} ->
                 [sl |-> p.structureHigh, tp |-> px - range]
          [] p.name \in {"DOUBLE_BOTTOM", "INVERSE_HEAD_SHOULDERS", "CUP_HANDLE"} ->
                 [sl |-> p.structureLow, tp |-> px + range]
          [] p.name = "ASCENDING_TRIANGLE" -> [sl |-> p.support, tp |-> px + width]
          [] p.name = "DESCENDING_TRIANGLE" -> [sl |-> p.resistance, tp |-> px - width]
          [] p.name = "BULL_FLAG" -> [sl |-> times(9900), tp |-> times(10200)]
          [] p.name = "BEAR_FLAG" -> [sl |-> times(10100), tp |-> times(9800)]
          [] p.name = "RISING_WEDGE" -> [sl |-> times(9970), tp |-> times(9850)]
          [] p.name = "FALLING_WEDGE" -> [sl |-> times(10030), tp |-> times(10150)]
          [] OTHER -> [sl |-> NoVal, tp |-> NoVal]

\* the combination with the minimum and the maximum exchanged
fuseSwapped(signal, signalLevel, patternLevel, pick) ==
    IF signalLevel # NoVal /\ patternLevel # NoVal
    THEN IF signal = "BUY"
         THEN IF pick = "sl" THEN Max2(signalLevel, patternLevel)
                             ELSE Min2(signalLevel, patternLevel)
         ELSE IF signal = "SELL"
         THEN IF pick = "sl" THEN Min2(signalLevel, patternLevel)
                             ELSE Max2(signalLevel, patternLevel)
         ELSE NoVal
    ELSE IF signalLevel # NoVal THEN signalLevel ELSE patternLevel

\* the combination that ignores the pattern when the indicator gave no level
fuseIndicatorOnly(signal, signalLevel, patternLevel, pick) ==
    IF signalLevel # NoVal /\ patternLevel # NoVal
    THEN IF signal = "BUY"
         THEN IF pick = "sl" THEN Min2(signalLevel, patternLevel)
                             ELSE Max2(signalLevel, patternLevel)
         ELSE IF signal = "SELL"
         THEN IF pick = "sl" THEN Max2(signalLevel, patternLevel)
                             ELSE Min2(signalLevel, patternLevel)
         ELSE NoVal
    ELSE signalLevel

\* "Combine logic": the final stop (pick = "sl") or target (pick = "tp")
fuse(signal, signalLevel, patternLevel, pick) ==
    IF signalLevel # NoVal /\ patternLevel # NoVal
    THEN IF signal = "BUY"
         THEN IF pick = "sl" THEN Min2(signalLevel, patternLevel)
                             ELSE Max2(signalLevel, patternLevel)
         ELSE IF signal = "SELL"
         THEN IF pick = "sl" THEN Max2(signalLevel, patternLevel)
                             ELSE Min2(signalLevel, patternLevel)
         ELSE NoVal
    ELSE IF signalLevel # NoVal THEN signalLevel ELSE patternLevel

\* the levels of getSignal for a decision, the last close and the detector's result:
\* signal-based, pattern-based and final stop and target, in ten-thousandths
p1Levels(signal, lastClose, detected) ==
    LET signalSL == IF signal = "BUY" THEN lastClose * 9950
                    ELSE IF signal = "SELL" THEN lastClose * 10050 ELSE NoVal
        signalTP == IF signal = "BUY" THEN lastClose * 10100
                    ELSE IF signal = "SELL" THEN lastClose * 9900 ELSE NoVal
        pat == IF detected = NoPattern THEN [sl |-> NoVal, tp |-> NoVal]
               ELSE patternLevels(detected, lastClose)
    IN  [signalSL |-> signalSL, signalTP |-> signalTP,
         patternSL |-> pat.sl, patternTP |-> pat.tp,
         stopLoss |-> fuse(signal, signalSL, pat.sl, "sl"),
         takeProfit |-> fuse(signal, signalTP, pat.tp, "tp")]

\* the result record of getSignal for at least MIN_CLOSES closes; levels in
\* ten-thousandths
p1Result(closes, detected) ==
    LET signal == p1Decision(closes)
        lastClose == closes[Len(closes)]
        levels == p1Levels(signal, lastClose, detected)
    IN  [symbol |-> "btcusdt", signal |-> signal, lastPrice |-> lastClose,
         rsi |-> MathRound(calcRSI(closes, RSI_LENGTH)),
         signalSL |-> levels.signalSL, signalTP |-> levels.signalTP,
         pattern |-> detected.name,
         patternSL |-> levels.patternSL, patternTP |-> levels.patternTP,
         stopLoss |-> levels.stopLoss, takeProfit |-> levels.takeProfit]

\* a candle of part_001; `closed` records whether it entered the buffer as a closed
\* candle (the source keeps no such field)
P1Candle(close, closed) == [close |-> close, closed |-> closed]

\* wsBinance = new WebSocket(url) with its handlers, in connectBinance
P1Connect ==
    /\ sockets' = Append(sockets, NewSocket("btcusdt"))
    /\ binanceSocket' = Len(sockets) + 1

\* server.listen: loadInitialCandles succeeds, then connectBinance
P1FetchOk(P) ==
    /\ variant = "part_001"
    /\ fetching # <<>>
    /\ \E rows \in SeqsUpTo(P, HIST_LIMIT) :
          candles' = [j \in 1..Len(rows) |-> P1Candle(rows[j], TRUE)]
    /\ P1Connect
    /\ fetching' = <<>>
    /\ published' = <<>>
    /\ evaluations' = 0
    /\ lastOp' = OpOther("load")
    /\ UNCHANGED <<variant, timers, call, CURRENT_SYMBOL, ohlc, origin, lastSignal, isSwitching, restarting>>

\* server.listen: the fetch fails, candles = [], then connectBinance
P1FetchFail ==
    /\ variant = "part_001"
    /\ fetching # <<>>
    /\ candles' = <<>>
    /\ P1Connect
    /\ fetching' = <<>>
    /\ published' = <<>>
    /\ evaluations' = 0
    /\ lastOp' = OpOther("load_failed")
    /\ UNCHANGED <<variant, timers, call, CURRENT_SYMBOL, ohlc, origin, lastSignal, isSwitching, restarting>>

\* getSignal() on the buffer buf: the events it sends and the lastSignal it leaves
getSignal(buf, prior) ==
    LET closes == closesOf(buf)
        detected == detectChartPatterns(closes)
        result == p1Result(closes, detected)
    IN  IF Len(closes) < MIN_CLOSES
        THEN [events |-> <<>>, lastSignal |-> prior]
        ELSE [events |-> (IF detected = NoPattern THEN <<>>
                          ELSE <<[type |-> "pattern", pattern |-> detected.name]>>)
                         \o <<SignalEvent(result)>>,
              lastSignal |-> result]

\* wsBinance.onmessage, a well-formed kline message: k.c = close, k.x = final
P1Message(P) ==
    /\ variant = "part_001"
    /\ \E id \in 1..Len(sockets), close \in P, final \in BOOLEAN :
          LET pushed == Append(candles, P1Candle(close, TRUE))
              kept == IF Len(pushed) > HIST_LIMIT THEN Tail(pushed) ELSE pushed
              got == getSignal(kept, lastSignal)
          IN  /\ sockets[id].ready = "open"
              /\ sockets[id].listening
              /\ IF ~final
                 THEN /\ candles' = IF Len(candles) = 0
                                    THEN <<P1Candle(close, FALSE)>>
                                    ELSE [candles EXCEPT ![Len(candles)] =
                                             P1Candle(close, FALSE)]
                      /\ UNCHANGED lastSignal
                      /\ published' = <<PriceEvent(close, Null)>>
                      /\ evaluations' = 0
                 ELSE /\ candles' = kept
                      /\ lastSignal' = got.lastSignal
                      /\ published' = got.events \o <<PriceEvent(close, Null)>>
                      /\ evaluations' = 1
              /\ lastOp' = Op("message", final, close,
                               IF final /\ Len(pushed) > HIST_LIMIT THEN 1 ELSE 0)
    /\ UNCHANGED <<variant, timers, call, CURRENT_SYMBOL, ohlc, origin, sockets, binanceSocket,
                   isSwitching, restarting, fetching>>

\* a message that JSON.parse rejects, or one without the k field
P1MessageMalformed ==
    /\ variant = "part_001"
    /\ \E id \in 1..Len(sockets) :
          /\ sockets[id].ready = "open"
          /\ sockets[id].listening
    /\ published' = <<>>
    /\ evaluations' = 0
    /\ lastOp' = OpOther("malformed")
    /\ UNCHANGED <<variant, timers, call, CURRENT_SYMBOL, ohlc, origin, candles, lastSignal, sockets,
                   binanceSocket, isSwitching, restarting, fetching>>

\* the timer of wsBinance.onclose fires: connectBinance()
P1Reconnect ==
    /\ variant = "part_001"
    /\ Len(sockets) + Len(fetching) < MaxSockets
    /\ \E k \in 1..Len(timers) : timers' = RemoveAt(timers, k)
    /\ P1Connect
    /\ published' = <<>>
    /\ evaluations' = 0
    /\ lastOp' = OpOther("reconnect")
    /\ UNCHANGED <<variant, call, CURRENT_SYMBOL, ohlc, origin, candles, lastSignal,
                   isSwitching, restarting, fetching>>

\* The data path: the historical load at start-up and the upstream stream, with the
\* full price alphabet.
Next ==
    \/ SocketOpen
    \/ IdxMessage(Prices)
    \/ IdxMessageMalformed
    \/ IdxFetchOk(Prices)
    \/ IdxFetchFail
    \/ P2FetchOk(Prices)
    \/ P2FetchFail
    \/ P2Message(Prices)
    \/ P2PushOhlc(Prices)
    \/ P1FetchOk(Prices)
    \/ P1FetchFail
    \/ P1Message(Prices)
    \/ P1MessageMalformed

Spec == Init /\ [][Next]_vars

\* The control path of index.js: the data path plus symbol switches, disconnections
\* and reconnect timers, with one price.
CtlPrices == {1}
NextCtl ==
    \/ SocketOpen
    \/ IdxMessage(CtlPrices)
    \/ IdxMessageMalformed
    \/ IdxFetchOk(CtlPrices)
    \/ IdxFetchFail
    \/ IdxSwitchStart
    \/ IdxSwitchSame
    \/ IdxSwitchMissing
    \/ IdxClientConnect
    \/ SocketClose
    \/ IdxReconnect

SpecCtl == Init /\ [][NextCtl]_vars

\* The control path of part_002 and part_001, with one price.
NextCtl2 ==
    \/ SocketOpen
    \/ SocketClose
    \/ P2FetchOk(CtlPrices)
    \/ P2FetchFail
    \/ P2Message(CtlPrices)
    \/ P2ChangeSymbol
    \/ P2ChangeSymbolBusy
    \/ P2ChangeSymbolInvalid
    \/ P2Reconnect
    \/ P1FetchOk(CtlPrices)
    \/ P1FetchFail
    \/ P1Message(CtlPrices)
    \/ P1Reconnect

SpecCtl2 == Init /\ [][NextCtl2]_vars

\* The control path of src/index.js alone, with the scheduling the runtime gives:
\* a pending reconnect timer fires and an awaited historical fetch settles.
InitLive == Init /\ variant = "index"

NextLive ==
    \/ SocketOpen
    \/ SocketClose
    \/ IdxSwitchStart
    \/ IdxFetchOk(CtlPrices)
    \/ IdxFetchFail
    \/ IdxReconnect

SpecLive ==
    /\ InitLive
    /\ [][NextLive]_vars
    /\ WF_vars(IdxReconnect)
    /\ WF_vars(IdxFetchOk(CtlPrices) \/ IdxFetchFail)

\* the same with the runs in which a statement of switchSymbolTo raises
NextThrow ==
    \/ SocketOpen
    \/ SocketClose
    \/ IdxSwitchStart
    \/ IdxFetchOk(CtlPrices)
    \/ IdxFetchFail
    \/ IdxSwitchThrows(CtlPrices)
    \/ IdxReconnect

SpecThrow ==
    /\ InitLive
    /\ [][NextThrow]_vars
    /\ WF_vars(IdxReconnect)
    /\ WF_vars(IdxFetchOk(CtlPrices) \/ IdxFetchFail \/ IdxSwitchThrows(CtlPrices))

\* The level fusion of getSignal as a function of the decision, the last close and
\* the detector's result.  The detector's four levels are the minimum and the maximum
\* of the last 20 closes, so the last close lies between them.
PatternNames ==
    {"DOUBLE_TOP", "DOUBLE_BOTTOM", "HEAD_SHOULDERS", "INVERSE_HEAD_SHOULDERS",
     "RISING_WEDGE", "FALLING_WEDGE", "ASCENDING_TRIANGLE", "DESCENDING_TRIANGLE",
     "BULL_FLAG", "BEAR_FLAG", "CUP_HANDLE"}
\* a name outside the catalogue, for the default case of the switch of getSignal
OtherPatternName == "TRIPLE_TOP"
FusionCloses == {100, 250}
FusionSpreads == {0, 1, 3}
FusionRises == FusionSpreads \cup {150}
DetectedInputs(lastClose) ==
    {NoPattern} \cup
    {[name |-> n,
      support |-> 10000 * (lastClose - below),
      resistance |-> 10000 * (lastClose + above),
      structureLow |-> 10000 * (lastClose - below),
      structureHigh |-> 10000 * (lastClose + above)] :
        n \in PatternNames \cup {OtherPatternName}, below \in FusionSpreads, above \in FusionRises}
NoLevels ==
    [signalSL |-> NoVal, signalTP |-> NoVal, patternSL |-> NoVal, patternTP |-> NoVal,
     stopLoss |-> NoVal, takeProfit |-> NoVal]

InitFuse ==
    /\ variant = "part_001"
    /\ CURRENT_SYMBOL = "btcusdt"
    /\ ohlc = <<>>
    /\ origin = <<>>
    /\ candles = <<>>
    /\ lastSignal = NoSignal
    /\ sockets = <<>>
    /\ binanceSocket = 0
    /\ isSwitching = FALSE
    /\ restarting = FALSE
    /\ fetching = <<>>
    /\ timers = <<>>
    /\ \E signal \in {"BUY", "SELL", "HOLD"}, lastClose \in FusionCloses :
          \E detected \in DetectedInputs(lastClose) :
              call = [applied |-> FALSE, signal |-> signal, lastClose |-> lastClose,
                      detected |-> detected, levels |-> NoLevels]
    /\ published = <<>>
    /\ evaluations = 0
    /\ lastOp = OpOther("init")

\* getSignal computes the levels of its result
ApplyLevels ==
    /\ ~call.applied
    /\ call' = [call EXCEPT !.applied = TRUE,
                            !.levels = p1Levels(call.signal, call.lastClose,
                                                call.detected)]
    /\ UNCHANGED <<variant, CURRENT_SYMBOL, ohlc, origin, candles, lastSignal, sockets,
                   binanceSocket, isSwitching, restarting, fetching, timers, published,
                   evaluations, lastOp>>

NextFuse == ApplyLevels

SpecFuse == InitFuse /\ [][NextFuse]_vars

\* The indicator functions of src/index.js applied to a series of closes, and
\* applied again after one more close has arrived.
MaxValues == 5
IndPrices == {1, 4, 247, 250}

\* ema, rsi, the crosses at every index and the evaluation of one series
Indicators(values) ==
    LET emaS == ema(values, EMA_SHORT)
        emaL == ema(values, EMA_LONG)
    IN  [emaS |-> emaS,
         emaL |-> emaL,
         rsiArr |-> rsi(values, RSI_PERIOD),
         crossUp |-> [j \in 1..Len(values) |-> isCrossUp(emaS, emaL, j)],
         crossDown |-> [j \in 1..Len(values) |-> isCrossDown(emaS, emaL, j)],
         up |-> confirmedCrossUp(emaS, emaL, Len(values)),
         down |-> confirmedCrossDown(emaS, emaL, Len(values)),
         result |-> analyzeAndSignal([j \in 1..Len(values) |-> FinalCandle(values[j])],
                                     "btcusdt")]

InitInd ==
    /\ variant = "index"
    /\ CURRENT_SYMBOL = "btcusdt"
    /\ ohlc = <<>>
    /\ origin = <<>>
    /\ candles = <<>>
    /\ lastSignal = NoSignal
    /\ sockets = <<>>
    /\ binanceSocket = 0
    /\ isSwitching = FALSE
    /\ restarting = FALSE
    /\ fetching = <<>>
    /\ timers = <<>>
    /\ \E values \in SeqsUpTo(IndPrices, MaxValues) :
          call = [stage |-> "input", values |-> values]
    /\ published = <<>>
    /\ evaluations = 0
    /\ lastOp = OpOther("init")

\* the indicator functions are applied to the series; the caller keeps the
\* evaluation as lastSignal
ApplyIndicators ==
    /\ call.stage = "input"
    /\ call' = [stage |-> "applied", values |-> call.values,
                now |-> Indicators(call.values)]
    /\ lastSignal' = Indicators(call.values).result
    /\ UNCHANGED <<variant, CURRENT_SYMBOL, ohlc, origin, candles, sockets,
                   binanceSocket, isSwitching, restarting, fetching, timers, published,
                   evaluations, lastOp>>

\* one more close arrives; the indicator functions are applied to the longer series
\* and the confirmed crosses are asked again for the index that was the last one
AppendAndRecheck ==
    /\ call.stage = "applied"
    /\ \E v \in IndPrices :
          LET longer == Append(call.values, v)
              after == Indicators(longer)
              i == Len(call.values)
          IN  /\ call' = [stage |-> "rechecked", values |-> longer, now |-> after,
                          before |-> call.now,
                          upAgain |-> confirmedCrossUp(after.emaS, after.emaL, i),
                          downAgain |-> confirmedCrossDown(after.emaS, after.emaL, i)]
              /\ lastSignal' = after.result
    /\ UNCHANGED <<variant, CURRENT_SYMBOL, ohlc, origin, candles, sockets,
                   binanceSocket, isSwitching, restarting, fetching, timers, published,
                   evaluations, lastOp>>

\* calcConfidence as analyzeAndSignal calls it: with a rounded RSI that passed the
\* test of the side
ApplyConfidence ==
    /\ call.stage = "input"
    /\ call.values = <<>>
    /\ \E rsiVal \in 0..100, side \in {"BUY", "SELL"} :
          /\ side = "BUY" => rsiVal <= RSI_BUY_MAX
          /\ side = "SELL" => rsiVal >= RSI_SELL_MIN
          /\ call' = [stage |-> "confidence", values |-> <<>>, rsiVal |-> rsiVal,
                      side |-> side, confidence |-> calcConfidence(rsiVal, side)]
    /\ UNCHANGED <<variant, CURRENT_SYMBOL, ohlc, origin, candles, lastSignal, sockets,
                   binanceSocket, isSwitching, restarting, fetching, timers, published,
                   evaluations, lastOp>>

\* the buffer of the most recent evaluation as analyzeAndSignal receives it
EvaluatedBuffer == [j \in 1..Len(call.values) |-> FinalCandle(call.values[j])]

\* an evaluation that returns HOLD where lastSignal already holds the same
\* BUY or SELL
EvaluateAgainOncePerSide ==
    /\ call.stage \in {"applied", "rechecked"}
    /\ LET result == analyzeAndSignal(EvaluatedBuffer, "btcusdt")
           again == IF result.signal \in {"BUY", "SELL"}
                       /\ lastSignal.signal = result.signal
                    THEN [result EXCEPT !.signal = "HOLD",
                                        !.reason = "No confirmed cross",
                                        !.stopLoss = NoVal, !.takeProfit = NoVal,
                                        !.confidence = NoVal]
                    ELSE result
       IN  /\ call' = [stage |-> "repeated", values |-> call.values,
                       buffer |-> EvaluatedBuffer, first |-> call.now.result,
                       again |-> again]
           /\ lastSignal' = again
    /\ UNCHANGED <<variant, CURRENT_SYMBOL, ohlc, origin, candles, sockets,
                   binanceSocket, isSwitching, restarting, fetching, timers, published,
                   evaluations, lastOp>>

\* analyzeAndSignal is applied once more to the buffer of the most recent
\* evaluation, whose result is lastSignal by now
EvaluateAgain ==
    /\ call.stage \in {"applied", "rechecked"}
    /\ LET again == analyzeAndSignal(EvaluatedBuffer, "btcusdt")
       IN  /\ call' = [stage |-> "repeated", values |-> call.values,
                       buffer |-> EvaluatedBuffer, first |-> call.now.result,
                       again |-> again]
           /\ lastSignal' = again
    /\ UNCHANGED <<variant, CURRENT_SYMBOL, ohlc, origin, candles, sockets,
                   binanceSocket, isSwitching, restarting, fetching, timers, published,
                   evaluations, lastOp>>

NextInd ==
    \/ ApplyIndicators
    \/ AppendAndRecheck
    \/ ApplyConfidence
    \/ EvaluateAgain

SpecInd == InitInd /\ [][NextInd]_vars

\* detectChartPatterns applied to an argument: a series of closes that is level
\* except at the positions the heuristics read, or something that is not an array.
PatternBase == 1000
PatternLengths ==
    {PATTERN_MIN_CANDLES - 1, PATTERN_MIN_CANDLES, PATTERN_MIN_CANDLES + 1}
NearBase == {PatternBase - 1, PatternBase, PatternBase + 1}
FarFromBase == {PatternBase - 30, PatternBase, PatternBase + 30}
MidCloses == {PatternBase - 30, PatternBase, NoVal, TextClose}
\* the closes, given the values at the positions counted back from the last one
PatternCloses(n, e0, e2, e4, e6, e9, e19, e24, e29) ==
    [j \in 1..n |->
        CASE n - j = 0 -> e0
          [] n - j = 2 -> e2
          [] n - j = 4 -> e4
          [] n - j = 6 -> e6
          [] n - j = 9 -> e9
          [] n - j = 19 -> e19
          [] n - j = 24 -> e24
          [] n - j = 29 -> e29
          [] OTHER -> PatternBase]
NotAnArray == [isArray |-> FALSE, closes |-> <<>>]

InitPat ==
    /\ variant = "part_001"
    /\ CURRENT_SYMBOL = "btcusdt"
    /\ ohlc = <<>>
    /\ origin = <<>>
    /\ candles = <<>>
    /\ lastSignal = NoSignal
    /\ sockets = <<>>
    /\ binanceSocket = 0
    /\ isSwitching = FALSE
    /\ restarting = FALSE
    /\ fetching = <<>>
    /\ timers = <<>>
    /\ \/ call = [stage |-> "input", input |-> NotAnArray]
       \/ \E n \in PatternLengths, e0 \in NearBase, e2 \in NearBase, e4 \in NearBase,
             e6 \in NearBase, e9 \in NearBase, e19 \in FarFromBase,
             e24 \in MidCloses, e29 \in FarFromBase :
             call = [stage |-> "input",
                     input |-> [isArray |-> TRUE,
                                closes |-> PatternCloses(n, e0, e2, e4, e6, e9, e19,
                                                         e24, e29)]]
    /\ published = <<>>
    /\ evaluations = 0
    /\ lastOp = OpOther("init")

\* detectChartPatterns is applied to the argument
ApplyDetect ==
    /\ call.stage = "input"
    /\ call' = [stage |-> "detected", input |-> call.input,
                result |-> detectChartPatternsOf(call.input)]
    /\ UNCHANGED <<variant, CURRENT_SYMBOL, ohlc, origin, candles, lastSignal, sockets,
                   binanceSocket, isSwitching, restarting, fetching, timers, published,
                   evaluations, lastOp>>

NextPat == ApplyDetect

SpecPat == InitPat /\ [][NextPat]_vars

\* ----------------------------------------------------------------------
\* Properties
\* ----------------------------------------------------------------------

\* index.js has just evaluated the buffer: lastSignal is the result for ohlc
IdxEvaluated ==
    /\ variant = "index"
    /\ \/ lastOp.op = "message" /\ lastOp.final
       \/ lastOp.op = "load"
\* index.js has just handled a closed candle of the stream
IdxFinalMessage == variant = "index" /\ lastOp.op = "message" /\ lastOp.final
\* part_001 has just handled a closed candle of the stream
P1FinalMessage == variant = "part_001" /\ lastOp.op = "message" /\ lastOp.final

NowCloses == closesOf(ohlc)
\* the EMA series at position j of the current buffer
ShortAt(j) == emaAt(NowCloses, EMA_SHORT, j)
LongAt(j) == emaAt(NowCloses, EMA_LONG, j)
\* short <= long at position j - 1 and short > long at position j, and the mirror
UpCrossAt(j) ==
    j - 1 >= EMA_LONG /\ RLe(ShortAt(j - 1), LongAt(j - 1)) /\ RGt(ShortAt(j), LongAt(j))
DownCrossAt(j) ==
    j - 1 >= EMA_LONG /\ RGe(ShortAt(j - 1), LongAt(j - 1)) /\ RLt(ShortAt(j), LongAt(j))
\* the unrounded RSI series value at the latest position
RsiNow == rsiValue(rsiAvg(NowCloses, RSI_PERIOD, Len(ohlc)))

CountType(events, type) == Cardinality({j \in 1..Len(events) : events[j].type = type})

\* C1: on the evaluation of the candle at which the short EMA crosses above the long
\* EMA, analyzeAndSignal returns HOLD; BUY is returned only on the following candle,
\* when the cross happened one position before the latest, the short EMA is still
\* above the long EMA and the RSI condition holds.
C1_ConfirmationLag ==
    IdxFinalMessage /\ Len(ohlc) > EMA_LONG =>
        /\ UpCrossAt(Len(ohlc)) => lastSignal.signal = "HOLD"
        /\ lastSignal.signal = "BUY" =>
              /\ UpCrossAt(Len(ohlc) - 1)
              /\ RGt(ShortAt(Len(ohlc)), LongAt(Len(ohlc)))
              /\ lastSignal.rsi <= RSI_BUY_MAX

\* C2 (as stated): BUY exactly when an up-cross is detected at the latest index and
\* the RSI series value there is <= RSI_BUY_MAX, SELL exactly when a down-cross is
\* detected there and the RSI series value is >= RSI_SELL_MIN, HOLD otherwise.
C2_DecisionOnRawRsi ==
    IdxEvaluated /\ Len(ohlc) > EMA_LONG =>
        LET buy == UpCrossAt(Len(ohlc)) /\ RLe(RsiNow, Rat(RSI_BUY_MAX, 1))
            sell == ~buy /\ DownCrossAt(Len(ohlc)) /\ RGe(RsiNow, Rat(RSI_SELL_MIN, 1))
        IN  lastSignal.signal = (IF buy THEN "BUY" ELSE IF sell THEN "SELL" ELSE "HOLD")

\* C2 (amended): BUY exactly when an up-cross is detected at the latest index and
\* the RSI series value there, rounded to the nearest integer, is <= RSI_BUY_MAX
\* (the value is below RSI_BUY_MAX + 0.5); SELL exactly when a down-cross is
\* detected there and the rounded RSI is >= RSI_SELL_MIN (the value is at least
\* RSI_SELL_MIN - 0.5); HOLD in every other case, also with too few closes.
C2_DecisionOnRoundedRsi ==
    IdxEvaluated =>
        LET buy == /\ UpCrossAt(Len(ohlc))
                   /\ RLt(RsiNow, Rat(2 * RSI_BUY_MAX + 1, 2))
            sell == /\ ~buy
                    /\ DownCrossAt(Len(ohlc))
                    /\ RGe(RsiNow, Rat(2 * RSI_SELL_MIN - 1, 2))
        IN  lastSignal.signal = (IF buy THEN "BUY" ELSE IF sell THEN "SELL" ELSE "HOLD")

\* C2 witness: a BUY whose unrounded RSI is above RSI_BUY_MAX
C2_BuyInRoundingBand ==
    /\ IdxEvaluated
    /\ Len(ohlc) > EMA_LONG
    /\ lastSignal.signal = "BUY"
    /\ RGt(RsiNow, Rat(RSI_BUY_MAX, 1))

\* the closes of part_001's buffer, and its two EMAs one candle earlier
P1Closes == closesOf(candles)
P1PrevCloses == SubSeq(P1Closes, 1, Len(candles) - 1)

\* C3: getSignal emits BUY only on a candle where EMA(5) crossed above EMA(20)
\* (EMA5 <= EMA20 on the previous candle), with RSI inside (50,70) and the last close
\* above EMA(20); SELL is the mirror condition.
C3_SignalOnlyOnCross ==
    P1FinalMessage /\ Len(candles) >= MIN_CLOSES /\ Len(candles) >= 2 =>
        LET ema5 == calcEMA(P1Closes, EMA_FAST)
            ema20 == calcEMA(P1Closes, EMA_SLOW)
            prev5 == calcEMA(P1PrevCloses, EMA_FAST)
            prev20 == calcEMA(P1PrevCloses, EMA_SLOW)
            rsiNow == calcRSI(P1Closes, RSI_LENGTH)
            lastClose == Rat(P1Closes[Len(candles)], 1)
        IN  /\ lastSignal.signal = "BUY" =>
                  /\ RLe(prev5, prev20) /\ RGt(ema5, ema20)
                  /\ RGt(rsiNow, Rat(50, 1)) /\ RLt(rsiNow, Rat(70, 1))
                  /\ RGt(lastClose, ema20)
            /\ lastSignal.signal = "SELL" =>
                  /\ RGe(prev5, prev20) /\ RLt(ema5, ema20)
                  /\ RGt(rsiNow, Rat(30, 1)) /\ RLt(rsiNow, Rat(50, 1))
                  /\ RLt(lastClose, ema20)

\* The minimum number of closes the claim names, max(EMA_LONG, 20): it is EMA_LONG in
\* the default configuration (21), and the model's configuration scales the floor
\* of 20 with EMA_LONG.
C4_ClaimedMinimum == EMA_LONG

\* C4 (as stated): the 'Not enough data' HOLD is returned if and only if the buffer
\* holds fewer than max(EMA_LONG, 20) closes.
C4_NotEnoughBelowEmaLong ==
    IdxEvaluated =>
        (lastSignal.reason = "Not enough data" <=> Len(ohlc) < C4_ClaimedMinimum)

\* C4 (amended): the 'Not enough data' HOLD is returned if and only if the buffer
\* holds at most EMA_LONG closes; with EMA_LONG + 1 closes the cross is evaluated.
C4_NotEnoughUpToEmaLong ==
    IdxEvaluated =>
        /\ lastSignal.reason = "Not enough data" <=> Len(ohlc) <= EMA_LONG
        /\ lastSignal.reason = "Not enough data" => lastSignal.signal = "HOLD"
        /\ Len(ohlc) = EMA_LONG + 1 =>
              lastSignal.reason \in {"EMA cross up", "EMA cross down", "No confirmed cross"}

\* C4 witness: an evaluation of exactly EMA_LONG closes
C4_ExactlyEmaLongCloses ==
    IdxEvaluated /\ Len(ohlc) = EMA_LONG /\ lastSignal.reason = "Not enough data"

\* C5: a closed candle that leaves part_001's buffer with fewer than 20 closes yields
\* a HOLD signal that becomes lastSignal and is published.
C5_HoldOnShortHistory ==
    P1FinalMessage /\ Len(candles) < MIN_CLOSES =>
        /\ lastSignal.signal = "HOLD"
        /\ CountType(published, "signal") = 1

\* the last n elements of s
LastN(s, n) == SubSeq(s, Len(s) - n + 1, Len(s))

\* C6: the buffer never exceeds its capacity, and a final candle appended at capacity
\* evicts exactly the oldest element.
C6_BoundedFifo ==
    [][/\ Len(ohlc') <= MaxOhlc
       /\ Len(candles') <= HIST_LIMIT
       /\ lastOp'.op = "message" /\ lastOp'.final /\ variant \in {"index", "part_002"} =>
             ohlc' = LastN(Append(ohlc, FinalCandle(lastOp'.close)),
                           Min2(MaxOhlc, Len(ohlc) + 1))
       /\ lastOp'.op = "message" /\ lastOp'.final /\ variant = "part_001" =>
             closesOf(candles') = LastN(Append(closesOf(candles), lastOp'.close),
                                        Min2(HIST_LIMIT, Len(candles) + 1))
       /\ lastOp'.op = "push_ohlc" =>
             LET n == Len(published') - 1
                 rows == [j \in 1..n |-> FinalCandle(published'[j].close)]
             IN  ohlc' = LastN(ohlc \o rows, Min2(MaxOhlc, Len(ohlc) + n))
      ]_vars

\* C6 witness: a closed candle was appended to a full buffer and one element evicted
C6_EvictedAtCapacity ==
    /\ lastOp.op = "message" /\ lastOp.final /\ lastOp.shifted = 1
    /\ Len(ohlc) = MaxOhlc

\* C7: in part_001 a provisional message never overwrites or removes a candle that
\* entered the buffer as final.
C7_FinalCandlesKept ==
    [][variant = "part_001" /\ lastOp'.op = "message" /\ ~lastOp'.final =>
          \A j \in 1..Len(candles) :
              candles[j].closed =>
                  j <= Len(candles') /\ candles'[j].close = candles[j].close
      ]_vars

\* C8: a provisional message leaves ohlc and lastSignal unchanged in index.js and
\* never increases the buffer length in part_001, also when the buffer is empty.
C8_ProvisionalAddsNothing ==
    [][lastOp'.op = "message" /\ ~lastOp'.final =>
          /\ variant = "index" => ohlc' = ohlc /\ lastSignal' = lastSignal
          /\ variant = "part_001" => Len(candles') <= Len(candles)
      ]_vars

\* C9 (as stated): in index.js the evaluation and the 'signal' broadcast happen only
\* in response to a final-candle stream message, once each per such message.
C9_EvaluationOnlyOnFinalMessage ==
    variant = "index" =>
        /\ evaluations > 0 \/ CountType(published, "signal") > 0 => IdxFinalMessage
        /\ IdxFinalMessage => evaluations = 1 /\ CountType(published, "signal") = 1

\* the 'signal' messages of the most recent handler that carry no new evaluation:
\* the broadcast after 'symbol_changed' at the end of a symbol switch, and the replay
\* of lastSignal to a subscriber that has just connected
C9_Rebroadcasts ==
    IF lastOp.op \in {"load", "load_failed"}
    THEN CountType(published, "symbol_changed")
    ELSE IF lastOp.op = "connection" /\ lastSignal # NoSignal THEN 1 ELSE 0

\* C9 (amended): in index.js the evaluation happens only in response to a
\* final-candle stream message or a successful historical load, once per such
\* event, and its result is broadcast as one 'signal'; the only other 'signal'
\* messages are the broadcast of lastSignal that follows 'symbol_changed' at the end
\* of a symbol switch and the replay of lastSignal to a newly connected subscriber;
\* provisional messages cause neither an evaluation nor a 'signal'.
C9_EvaluationOnFinalMessageOrLoad ==
    variant = "index" =>
        /\ evaluations = (IF IdxEvaluated THEN 1 ELSE 0)
        /\ CountType(published, "signal") = evaluations + C9_Rebroadcasts
        /\ CountType(published, "symbol_changed") <= 1
        /\ lastOp.op = "message" /\ ~lastOp.final =>
              evaluations = 0 /\ CountType(published, "signal") = 0

\* C9 witness: a closed candle of the stream was evaluated and its signal broadcast
C9_FinalMessageEvaluated ==
    /\ IdxFinalMessage
    /\ evaluations = 1
    /\ CountType(published, "signal") = 1
    /\ published[2].data = lastSignal

\* C10: every well-formed candle message causes exactly one 'price' event carrying
\* the candle's close; in index.js the 'price' event of a final candle precedes the
\* 'signal' event of the same candle.
C10_OnePricePerMessage ==
    lastOp.op = "message" =>
        /\ CountType(published, "price") = 1
        /\ \A j \in 1..Len(published) :
              published[j].type = "price" => published[j].close = lastOp.close
        /\ variant = "index" /\ lastOp.final =>
              /\ published[1].type = "price"
              /\ published[2].type = "signal"
              /\ Len(published) = 2

\* C10 witness: a closed candle handled by index.js, its 'price' then its 'signal'
C10_FinalMessagePublished ==
    /\ IdxFinalMessage
    /\ published[1] = PriceEvent(lastOp.close, CURRENT_SYMBOL)
    /\ published[2] = SignalEvent(lastSignal)

\* the switches of symbol whose historical fetch is in flight
SwitchesInFlight(f) == {k \in 1..Len(f) : f[k].kind = "switch"}

\* C11: in index.js a switch request that arrives while an earlier switch is still
\* awaiting its historical fetch is rejected without changing CURRENT_SYMBOL, the
\* buffer or the upstream socket, and at most one switch is in progress at any time.
C11_ConcurrentSwitchRejected ==
    [][variant = "index" =>
          /\ isSwitching /\ lastOp'.op \in {"switch", "switch_malformed"} =>
                UNCHANGED <<CURRENT_SYMBOL, ohlc, sockets, binanceSocket, fetching>>
          /\ Cardinality(SwitchesInFlight(fetching')) <= 1
      ]_vars

\* C12: in part_002 a POST /change-symbol received while restarting is true is
\* answered 409 and changes none of CURRENT_SYMBOL, ohlc, lastSignal and the upstream
\* socket; restarting is true exactly while one switch is in flight, and is false
\* again when the switch ends, whether its fetch succeeded or failed.
C12_RestartInProgressRejected ==
    [][variant = "part_002" =>
          /\ restarting /\ lastOp'.op = "change_symbol" =>
                /\ lastOp'.status = 409
                /\ UNCHANGED <<CURRENT_SYMBOL, ohlc, lastSignal, sockets, binanceSocket,
                               restarting, fetching>>
          /\ restarting' <=> Cardinality(SwitchesInFlight(fetching')) = 1
          /\ Cardinality(SwitchesInFlight(fetching')) <= 1
          /\ lastOp'.op \in {"load", "load_failed"} /\ lastOp'.from # Null =>
                restarting /\ ~restarting'
      ]_vars

\* C12 witness: a request was answered 409 while a switch was in flight
C12_RejectedWhileRestarting ==
    /\ variant = "part_002"
    /\ restarting
    /\ lastOp.op = "change_symbol"
    /\ lastOp.status = 409
    /\ Cardinality(SwitchesInFlight(fetching)) = 1

\* every candle of the buffer was fetched or streamed for one instrument
OneInstrument == \A j \in 1..Len(origin) : origin[j] = origin[1]

\* C13: after a switch to X completes the buffer holds only candles of X, and the
\* evaluation never runs on a buffer that holds candles of two instruments.
C13_SingleInstrumentBuffer ==
    /\ evaluations > 0 => OneInstrument
    /\ lastOp.op = "load" /\ lastOp.from # Null =>
          \A j \in 1..Len(origin) : origin[j] = CURRENT_SYMBOL

\* C14: when the historical fetch of a switch fails, CURRENT_SYMBOL, the buffer,
\* lastSignal and the upstream subscription are what they were before the switch.
C14_FailedSwitchLeavesState ==
    [][lastOp'.op = "load_failed" /\ lastOp'.from # Null =>
          /\ CURRENT_SYMBOL' = lastOp'.from
          /\ ohlc' = ohlc
          /\ lastSignal' = lastSignal
          /\ \A id \in 1..Len(sockets') :
                sockets'[id].ready \in {"connecting", "open"} /\ sockets'[id].listening
                    => sockets'[id].sym = lastOp'.from
      ]_vars

\* C15: a change-symbol request with a missing or malformed symbol is rejected
\* synchronously with an error response and changes none of CURRENT_SYMBOL, the
\* buffer, lastSignal, the switch flag and the upstream socket.
C15_InvalidSymbolRejected ==
    [][lastOp'.op \in {"switch_missing", "switch_malformed",
                       "change_missing", "change_malformed"} =>
          /\ lastOp'.status >= 400
          /\ UNCHANGED <<CURRENT_SYMBOL, ohlc, lastSignal, isSwitching, restarting,
                         sockets, binanceSocket, fetching>>
      ]_vars

\* C16: in index.js a stream message that cannot be parsed, or that has no k field,
\* is dropped alone: the buffer and lastSignal are unchanged, nothing is published,
\* the stream and its handler stay in place, and a well-formed message that follows
\* is still processed.
C16_MalformedDroppedAlone ==
    /\ [](variant = "index" /\ lastOp.op = "malformed" => ENABLED IdxMessage(Prices))
    /\ [][variant = "index" /\ lastOp'.op = "malformed" =>
             /\ UNCHANGED <<ohlc, origin, lastSignal, sockets, binanceSocket,
                            CURRENT_SYMBOL, isSwitching, fetching, timers>>
             /\ published' = <<>>
             /\ evaluations' = 0
         ]_vars

\* C16 witness: a malformed message arrived while the buffer held candles
C16_MalformedAfterCandles ==
    /\ variant = "index"
    /\ lastOp.op = "malformed"
    /\ Len(ohlc) > EMA_LONG
    /\ lastSignal # NoSignal

\* C17: when the upstream stream has disconnected, the reconnect timer first
\* re-fetches the historical candles, and the stream is resubscribed only after the
\* fetch has replaced the buffer.
C17_RefetchBeforeResubscribe ==
    [][lastOp'.op = "reconnect" =>
          /\ Len(fetching') = Len(fetching) + 1
          /\ sockets' = sockets
      ]_vars

\* the levels of the most recent fusion, and both kinds of level present
Fused == call.levels
BothLevels == call.applied /\ Fused.signalSL # NoVal /\ Fused.patternSL # NoVal

\* C18: in part_001, when both an indicator-based and a pattern-based level exist,
\* the fused stop is the minimum of the two for BUY and the maximum for SELL, and
\* the fused target is the maximum of the two for BUY and the minimum for SELL.
C18_FusionMinMax ==
    BothLevels =>
        /\ call.signal \in {"BUY", "SELL"}
        /\ Fused.signalTP # NoVal /\ Fused.patternTP # NoVal
        /\ call.signal = "BUY" =>
              /\ Fused.stopLoss = Min2(Fused.signalSL, Fused.patternSL)
              /\ Fused.takeProfit = Max2(Fused.signalTP, Fused.patternTP)
        /\ call.signal = "SELL" =>
              /\ Fused.stopLoss = Max2(Fused.signalSL, Fused.patternSL)
              /\ Fused.takeProfit = Min2(Fused.signalTP, Fused.patternTP)

\* C18 witness: a BUY whose pattern stop is below the indicator stop and whose
\* pattern target is above the indicator target
C18_BuyWithLowerPatternStop ==
    /\ BothLevels
    /\ call.signal = "BUY"
    /\ Fused.patternSL < Fused.signalSL
    /\ Fused.patternTP > Fused.signalTP
    /\ Fused.stopLoss = Fused.patternSL
    /\ Fused.takeProfit = Fused.patternTP

\* C19: in part_001, when both stops exist, the fused stop-loss is the one of the two
\* that is closer to the current price: its distance to lastClose is no larger than
\* the other's.
C19_FusedStopIsCloser ==
    BothLevels =>
        LET px == 10000 * call.lastClose
        IN  /\ Abs(Fused.stopLoss - px) <= Abs(Fused.signalSL - px)
            /\ Abs(Fused.stopLoss - px) <= Abs(Fused.patternSL - px)

\* C20: in part_001, when exactly one of the two sources produced a level, the final
\* stop and target are that source's levels unchanged (a HOLD with a matched pattern
\* carries the pattern's levels); when neither did, the final levels are null.
C20_SingleSourceLevels ==
    call.applied /\ ~BothLevels =>
        /\ Fused.signalSL = NoVal <=> call.signal = "HOLD"
        /\ Fused.signalSL # NoVal =>
              Fused.stopLoss = Fused.signalSL /\ Fused.takeProfit = Fused.signalTP
        /\ Fused.signalSL = NoVal =>
              Fused.stopLoss = Fused.patternSL /\ Fused.takeProfit = Fused.patternTP
        /\ call.detected = NoPattern /\ call.signal = "HOLD" =>
              Fused.stopLoss = NoVal /\ Fused.takeProfit = NoVal

\* C20 witness: a HOLD with a matched pattern carries the pattern's levels
C20_HoldWithPatternLevels ==
    /\ call.applied
    /\ call.signal = "HOLD"
    /\ call.detected # NoPattern
    /\ Fused.stopLoss = Fused.patternSL
    /\ Fused.stopLoss # NoVal
    /\ Fused.takeProfit = Fused.patternTP

\* C21: in part_001 the pattern-based stop and target of each of the 11 pattern
\* kinds are those of the pattern-to-level table: the topping patterns stop at
\* structureHigh with target price - (structureHigh - structureLow), the bottoming
\* patterns and the cup stop at structureLow with target price + the same range, the
\* triangles use support and resistance, the flags and wedges fixed multiples of the
\* price; any other name gives null levels.
C21_PatternLevelTable ==
    call.applied /\ call.detected # NoPattern =>
        LET p == call.detected
            px == 10000 * call.lastClose
            sl == Fused.patternSL
            tp == Fused.patternTP
        IN  /\ p.name \in {"DOUBLE_TOP", "HEAD_SHOULDERS"} =>
                  sl = p.structureHigh /\ tp = px - (p.structureHigh - p.structureLow)
            /\ p.name \in {"DOUBLE_BOTTOM", "INVERSE_HEAD_SHOULDERS", "CUP_HANDLE"} =>
                  sl = p.structureLow /\ tp = px + (p.structureHigh - p.structureLow)
            /\ p.name = "ASCENDING_TRIANGLE" =>
                  sl = p.support /\ tp = px + (p.resistance - p.support)
            /\ p.name = "DESCENDING_TRIANGLE" =>
                  sl = p.resistance /\ tp = px - (p.resistance - p.support)
            /\ p.name = "BULL_FLAG" =>
                  sl = call.lastClose * 9900 /\ tp = call.lastClose * 10200
            /\ p.name = "BEAR_FLAG" =>
                  sl = call.lastClose * 10100 /\ tp = call.lastClose * 9800
            /\ p.name = "RISING_WEDGE" =>
                  sl = call.lastClose * 9970 /\ tp = call.lastClose * 9850
            /\ p.name = "FALLING_WEDGE" =>
                  sl = call.lastClose * 10030 /\ tp = call.lastClose * 10150
            /\ p.name \notin PatternNames => sl = NoVal /\ tp = NoVal

\* C21 witness: a DOUBLE_TOP whose structure has a low below and a high above the
\* last close, with its stop at the high
C21_DoubleTopLevels ==
    /\ call.applied
    /\ call.detected # NoPattern
    /\ call.detected.name = "DOUBLE_TOP"
    /\ call.detected.structureLow < 10000 * call.lastClose
    /\ call.detected.structureHigh > 10000 * call.lastClose
    /\ Fused.patternSL = call.detected.structureHigh
    /\ Fused.patternTP < 10000 * call.lastClose

\* the series of the most recent application of the indicator functions
Applied == call.stage \in {"applied", "rechecked"}
Evaluation == call.now.result

\* C22: in index.js the indicator-based levels of a BUY are a fixed fraction of the
\* entry price, stopLoss = price * (1 - 0.002) and takeProfit = price * (1 + 0.006)
\* to 2 decimals, and those of a SELL the mirror offsets, for every positive price.
C22_FractionalLevels ==
    Applied =>
        /\ Evaluation.signal = "BUY" =>
              /\ Evaluation.stopLoss = ToFixed2(998 * Evaluation.price, 1000)
              /\ Evaluation.takeProfit = ToFixed2(1006 * Evaluation.price, 1000)
        /\ Evaluation.signal = "SELL" =>
              /\ Evaluation.stopLoss = ToFixed2(1002 * Evaluation.price, 1000)
              /\ Evaluation.takeProfit = ToFixed2(994 * Evaluation.price, 1000)

\* min(0.95, 0.6 + bonus), in hundredths, with the bonus the distance of the RSI
\* from the threshold of the side
ClaimedConfidence(rsiVal, side) ==
    Min2(95, 60 + (IF side = "BUY" THEN RSI_BUY_MAX - rsiVal
                                   ELSE rsiVal - RSI_SELL_MIN))

\* C23: every BUY or SELL of analyzeAndSignal has confidence min(0.95, 0.6 + bonus)
\* with a bonus >= 0 linear in the distance of the RSI from the threshold, so the
\* confidence lies in [0.6, 0.95].
C23_ConfidenceRange ==
    /\ Applied /\ Evaluation.signal \in {"BUY", "SELL"} =>
          /\ Evaluation.confidence = ClaimedConfidence(Evaluation.rsi, Evaluation.signal)
          /\ Evaluation.confidence >= 60
          /\ Evaluation.confidence <= 95
    /\ call.stage = "confidence" =>
          /\ call.confidence = ClaimedConfidence(call.rsiVal, call.side)
          /\ call.confidence >= 60
          /\ call.confidence <= 95

\* C23 witness: a BUY whose RSI is below the threshold, with a bonus and below the cap
C23_BuyWithBonus ==
    /\ Applied
    /\ Evaluation.signal = "BUY"
    /\ Evaluation.rsi < RSI_BUY_MAX
    /\ Evaluation.confidence > 60
    /\ Evaluation.confidence < 95

\* C24: isCrossUp and isCrossDown are never both true for the same pair of series
\* and the same index, and one evaluation never has both a confirmed up-cross and a
\* confirmed down-cross.
C24_CrossesExclusive ==
    Applied =>
        /\ \A j \in 1..Len(call.values) : ~(call.now.crossUp[j] /\ call.now.crossDown[j])
        /\ ~(call.now.up /\ call.now.down)

\* C24 witness: a series with an up-cross at one index and a down-cross at another
C24_BothKindsOfCross ==
    /\ Applied
    /\ \E j \in EMA_LONG..Len(call.values) : call.now.crossUp[j]
    /\ \E j \in EMA_LONG..Len(call.values) : call.now.crossDown[j]

\* the index that was the last one before the series grew, as a position
PriorLast == Len(call.values) - 1

\* C25: with confirmation on, confirmedCrossUp at the last index of the series is
\* true when a cross is detected there; once one more value is appended with the
\* short series not above the long one at the new index, the same call for the same
\* index is false.  Symmetric for confirmedCrossDown.
C25_ConfirmationWithdrawn ==
    call.stage = "rechecked" /\ PriorLast >= 1 =>
        /\ call.before.crossUp[PriorLast] => call.before.up
        /\ call.before.crossDown[PriorLast] => call.before.down
        /\ /\ call.before.up
           /\ RLe(Num(call.now.emaS[PriorLast + 1]), Num(call.now.emaL[PriorLast + 1]))
           => ~call.upAgain
        /\ /\ call.before.down
           /\ RGe(Num(call.now.emaS[PriorLast + 1]), Num(call.now.emaL[PriorLast + 1]))
           => ~call.downAgain

\* C25 witness: an up-cross reported at the last index and withdrawn after the
\* next value
C25_UpCrossWithdrawn ==
    /\ call.stage = "rechecked"
    /\ PriorLast > EMA_LONG
    /\ call.before.up
    /\ ~call.upAgain

\* equality of two rationals
REq(a, b) == a.n * b.d = b.n * a.d

\* the claimed EMA of length L of the series: the mean of the first L values at
\* position L, value * k + previous * (1 - k) with k = 2 / (L + 1) at every later
\* position, and c at every defined position of a constant series of c
ClaimedEma(series, L) ==
    /\ Len(call.values) >= L =>
          REq(series[L], Rat(SumSeq(call.values, L), L))
    /\ \A j \in (L + 1)..Len(call.values) :
          REq(series[j],
              Rat(2 * call.values[j] * series[j - 1].d + (L - 1) * series[j - 1].n,
                  (L + 1) * series[j - 1].d))
    /\ (\A j \in 1..Len(call.values) : call.values[j] = call.values[1]) =>
          \A j \in L..Len(call.values) : REq(series[j], Rat(call.values[1], 1))

C30_SeriesShape ==
    Applied =>
        LET n == Len(call.values)
        IN  /\ Len(call.now.emaS) = n /\ Len(call.now.emaL) = n
            /\ Len(call.now.rsiArr) = n
            /\ \A j \in 1..n :
                  /\ IsNull(call.now.emaS[j]) <=> (n < EMA_SHORT \/ j < EMA_SHORT)
                  /\ IsNull(call.now.emaL[j]) <=> (n < EMA_LONG \/ j < EMA_LONG)
                  /\ IsNull(call.now.rsiArr[j]) <=> (n <= RSI_PERIOD \/ j <= RSI_PERIOD)

\* C30 witness: an input long enough for the short EMA and too short for the long
\* EMA and for the RSI
C30_ShortForLongEma ==
    /\ Applied
    /\ Len(call.values) >= EMA_SHORT
    /\ Len(call.values) < EMA_LONG
    /\ ~IsNull(call.now.emaS[Len(call.values)])
    /\ \A j \in 1..Len(call.values) :
          IsNull(call.now.emaL[j]) /\ IsNull(call.now.rsiArr[j])

\* the argument of the most recent detection, and its closes after Number()
Detected == call.stage = "detected"
RawCloses == call.input.closes
NumericCloses == [j \in 1..Len(RawCloses) |-> ToNumber(RawCloses[j])]
\* the argument is an array of at least 50 candles whose closes are all numbers
WellFormed ==
    /\ call.input.isArray
    /\ Len(RawCloses) >= PATTERN_MIN_CANDLES
    /\ \A j \in 1..Len(RawCloses) : RawCloses[j] >= 0

\* C26: detectChartPatterns returns null for every input with fewer than 50
\* candles, for an input that is not an array and for every input with a close that
\* is not a number.
C26_NullOnBadInput ==
    Detected /\ ~WellFormed => call.result = NoPattern

\* the heuristics in the order in which the function checks them
PatternOrder ==
    <<"DOUBLE_TOP", "DOUBLE_BOTTOM", "HEAD_SHOULDERS", "INVERSE_HEAD_SHOULDERS",
      "RISING_WEDGE", "FALLING_WEDGE", "ASCENDING_TRIANGLE", "DESCENDING_TRIANGLE",
      "BULL_FLAG", "BEAR_FLAG", "CUP_HANDLE">>
Fired == heuristics(NumericCloses)
LastFired ==
    PatternOrder[CHOOSE k \in 1..Len(PatternOrder) :
                    /\ PatternOrder[k] \in Fired
                    /\ \A m \in (k + 1)..Len(PatternOrder) : PatternOrder[m] \notin Fired]

\* C27: when several heuristics fire on the same input, the reported kind is the one
\* checked last in the order DOUBLE_TOP/DOUBLE_BOTTOM, HEAD_SHOULDERS,
\* INVERSE_HEAD_SHOULDERS, RISING_WEDGE, FALLING_WEDGE, ASCENDING_TRIANGLE,
\* DESCENDING_TRIANGLE, BULL_FLAG, BEAR_FLAG, CUP_HANDLE; whenever the CUP_HANDLE
\* condition holds the result is CUP_HANDLE.
C27_LastMatchWins ==
    Detected /\ WellFormed =>
        /\ Fired = {} <=> call.result = NoPattern
        /\ Fired # {} => call.result.name = LastFired
        /\ "CUP_HANDLE" \in Fired => call.result.name = "CUP_HANDLE"

\* C27 witness: three heuristics fire, the cup among them, and an earlier one
\* does not give the name
C27_CupOverwritesOthers ==
    /\ Detected
    /\ WellFormed
    /\ Cardinality(Fired) >= 3
    /\ "DOUBLE_TOP" \in Fired
    /\ "CUP_HANDLE" \in Fired
    /\ call.result.name = "CUP_HANDLE"

\* C28: whenever detectChartPatterns returns a match, support and structureLow are
\* the minimum close and resistance and structureHigh the maximum close of the last
\* 20 closes, to 4 decimals, so support <= resistance.
C28_LevelsOfLast20 ==
    Detected /\ call.result # NoPattern =>
        LET n == Len(NumericCloses)
            low == 10000 * MinOf(NumericCloses, n - 19, n)
            high == 10000 * MaxOf(NumericCloses, n - 19, n)
        IN  /\ call.result.support = low
            /\ call.result.structureLow = low
            /\ call.result.resistance = high
            /\ call.result.structureHigh = high
            /\ call.result.support <= call.result.resistance

\* C28 witness: a match on closes whose lowest value lies before the last 20
C28_MatchWithLowBeforeWindow ==
    /\ Detected
    /\ WellFormed
    /\ call.result # NoPattern
    /\ call.result.support < call.result.resistance
    /\ 10000 * MinOf(NumericCloses, 1, Len(NumericCloses)) < call.result.support


\* the smoothed averages behind the RSI at position j of the applied series
AvgAt(j) == rsiAvg(call.values, RSI_PERIOD, j)

\* C31: every defined output of rsi lies in [0, 100], and where the smoothed
\* average loss is 0 the output is within 0.01 of 100, a constant series included.
C31_RsiSaturatesWithoutLoss ==
    Applied =>
        \A j \in 1..Len(call.values) :
            LET r == call.now.rsiArr[j]
            IN  ~IsNull(r) =>
                    /\ RGe(r, Rat(0, 1))
                    /\ RLe(r, Rat(100, 1))
                    /\ AvgAt(j).l = 0 => RGe(r, Rat(9999, 100))


C38_LevelsOnCorrectSide ==
    call.applied =>
        LET px == 10000 * call.lastClose
        IN  /\ call.signal = "BUY" =>
                  /\ 0 < Fused.stopLoss
                  /\ Fused.stopLoss < px
                  /\ px < Fused.takeProfit
            /\ call.signal = "SELL" =>
                  /\ 0 < Fused.takeProfit
                  /\ Fused.takeProfit < px
                  /\ px < Fused.stopLoss


\* the close at index k (counted from 0) of the trailing 30-close window
Last30(k) == NumericCloses[Len(NumericCloses) - 30 + k + 1]

\* C40: BULL_FLAG is reported only when the pole of the trailing 30-close window
\* is an upward move of at least 2% (index 10 >= 1.02 x index 0) followed by a
\* consolidation under 1.5%, and BEAR_FLAG only when the pole is a downward move
\* of at least 2% followed by such a consolidation.
C40_FlagFollowsPole ==
    (Detected /\ call.result # NoPattern) =>
        LET consolidation ==
                1000 * Abs(Last30(29) - Last30(10)) < 15 * Last30(0)
        IN  /\ call.result.name = "BULL_FLAG" =>
                  /\ 100 * Last30(10) >= 102 * Last30(0)
                  /\ consolidation
            /\ call.result.name = "BEAR_FLAG" =>
                  /\ 100 * Last30(10) <= 98 * Last30(0)
                  /\ consolidation


\* C39: in index.js two consecutive evaluations never both return BUY and never
\* both return SELL, also when the buffer is at capacity and the oldest candle is
\* evicted between the two evaluations.
C39_NoRepeatedSide ==
    [][(/\ variant = "index"
        /\ lastOp'.op = "message"
        /\ lastOp'.final
        /\ lastSignal.signal \in {"BUY", "SELL"})
       => lastSignal'.signal # lastSignal.signal]_vars

\* the same for two evaluations with no eviction between them
C39_NoRepeatedSideWithoutEviction ==
    [][(/\ variant = "index"
        /\ lastOp'.op = "message"
        /\ lastOp'.final
        /\ lastOp'.shifted = 0
        /\ lastSignal.signal \in {"BUY", "SELL"})
       => lastSignal'.signal # lastSignal.signal]_vars


\* the upstream sockets that are open with their message handler attached
FeedingSockets ==
    {id \in 1..Len(sockets) : sockets[id].listening /\ sockets[id].ready = "open"}

\* C34: in index.js, under every interleaving of socket close events, reconnect
\* timers and symbol switches, at most one upstream socket with an attached message
\* handler feeds the buffer at any time.
C34_SingleFeedingSocket ==
    variant = "index" => Cardinality(FeedingSockets) <= 1


\* C33: in part_002, once a /change-symbol has completed, the upstream stream is
\* only ever (re)connected for the current symbol: a reconnect timer never starts
\* a stream for another symbol (which would terminate the current socket), and no
\* final candle of another symbol is appended to the buffer.
C33_ReconnectsCurrentSymbolOnly ==
    [][(variant = "part_002" /\ ~restarting /\ ~restarting') =>
          /\ lastOp'.op = "reconnect" =>
                sockets'[binanceSocket'].sym = CURRENT_SYMBOL'
          /\ (lastOp'.op = "message" /\ lastOp'.final) =>
                origin'[Len(origin')] = CURRENT_SYMBOL']_vars


\* a symbol switch has just been answered with { ok: true }
SwitchReportedOk == lastOp.op \in {"load", "load_failed"} /\ lastOp.status = 200

\* C37: a symbol switch is reported as successful only if the history of the new
\* symbol was loaded; when it is, the buffer holds candles of the new symbol,
\* lastSignal.symbol is CURRENT_SYMBOL and the 'signal' event published after
\* 'symbol_changed' is a signal for the new symbol.
C37_OkOnlyAfterLoad ==
    (variant = "index" /\ SwitchReportedOk) =>
        /\ lastOp.op = "load"
        /\ \A j \in 1..Len(origin) : origin[j] = CURRENT_SYMBOL
        /\ lastSignal # NoSignal
        /\ lastSignal.symbol = CURRENT_SYMBOL
        /\ \A j \in 2..Len(published) :
              published[j - 1].type = "symbol_changed" =>
                  /\ published[j].type = "signal"
                  /\ published[j].data # NoSignal
                  /\ published[j].data.symbol = CURRENT_SYMBOL


\* C35: in index.js isSwitching is true only while a switchSymbolTo call is in
\* flight, and every call that sets it sets it back to false on every path, a
\* failed fetch and a statement that raises included.
C35_SwitchFlagReset ==
    /\ [](isSwitching => SwitchesInFlight(fetching) # {})
    /\ isSwitching ~> ~isSwitching


\* an upstream socket for CURRENT_SYMBOL is connecting or open with its handlers
LiveForCurrent ==
    \E id \in 1..Len(sockets) :
        /\ sockets[id].sym = CURRENT_SYMBOL
        /\ sockets[id].ready \in {"connecting", "open"}
        /\ sockets[id].listening
\* the run has created as many sockets as the model follows
SocketBudgetSpent == Len(sockets) + Len(fetching) >= MaxSockets

====
